---- MODULE Spec2Model ----
(***************************************************************************)
(* Verification model of the fantasy-stats dashboard.                      *)
(*                                                                         *)
(* Components, each with its own state variables, initial state and        *)
(* next-state relation:                                                    *)
(*   aw_*  AwardsTab (filters, request sequencing, fetch effect)            *)
(*   om_*  OpponentAnalysisTab (derived head-to-head matrix)                *)
(*   db_*  DashboardTab (sorting of the weekly power table)                 *)
(*   la_*  App.loadAwardsAcrossYears (multi-season aggregation)             *)
(*   pl_*  scripts/pull_latest.sh                                           *)
(*   ch_*  aggregate cache rebuild / read discipline                        *)
(*   of_*  OpponentAnalysisTab (year range, opponent-matrix fetch)          *)
(*   ap_*  App of src/unnamed/part_001 (meta, year, week, data requests)    *)
(*   p0_*  App of src/unnamed/part_000 (year change, history selection)     *)
(*   rq_*  requests built by api/client.js for the components              *)
(* A specification runs one component; the other components stay parked    *)
(* in a fixed state.                                                       *)
(*                                                                         *)
(* React is modelled by its commit cycle: an event handler or a promise     *)
(* continuation writes state; a commit renders the current state, runs, in  *)
(* declaration order, every effect whose dependencies differ from the       *)
(* previous commit, and applies the state updates those effects queued.     *)
(***************************************************************************)
EXTENDS Integers, Sequences, FiniteSets, Bags, TLC

VARIABLES
  \* ---- AwardsTab (src/unnamed/part_003) ----
  aw_scope, aw_mode, aw_year, aw_teamId, aw_ownerCode, aw_currentOwnerEraOnly,
  aw_ownersCache, aw_data, aw_loading, aw_err,
  aw_reqSeq,      \* reqSeq.current
  aw_inflight,    \* getAwards promises not yet settled, with their closure
  aw_teams,       \* prop seasonPower.teams, as team ids sorted by rank
  aw_mounted,     \* the first commit has happened
  aw_rendered,    \* the state the last commit rendered (effect dependencies)
  aw_lastRun,     \* history: what the latest run() of the fetch effect did
  aw_dropped      \* history: the latest event was the arrival of the outcome
                  \* of a superseded request

awVars == <<aw_scope, aw_mode, aw_year, aw_teamId, aw_ownerCode,
            aw_currentOwnerEraOnly, aw_ownersCache, aw_data, aw_loading,
            aw_err, aw_reqSeq, aw_inflight, aw_teams, aw_mounted,
            aw_rendered, aw_lastRun, aw_dropped>>

VARIABLES
  \* ---- OpponentAnalysisTab (frontend/src/components/OpponentAnalysisTab.jsx)
  om_data,        \* opponent-matrix payload, or null
  om_metricMode,
  om_categories,  \* prop categories
  om_matrix       \* what the matrix useMemo returned at the last render

omVars == <<om_data, om_metricMode, om_categories, om_matrix>>

VARIABLES
  \* ---- DashboardTab (frontend/src/components/DashboardTab.jsx) ----
  db_view, db_sortField, db_sortDirection,
  db_weekTeams,        \* prop weekPower.teams
  db_seasonTeams,      \* prop seasonPower.teams
  db_sortedWeekTeams,  \* the rows of the weekly table at the last render
  db_sortedSeasonTeams \* the rows of the season table at the last render

dbVars == <<db_view, db_sortField, db_sortDirection, db_weekTeams,
            db_seasonTeams, db_sortedWeekTeams, db_sortedSeasonTeams>>

VARIABLES
  \* ---- App, multi-season awards (frontend/src/App.jsx) ----
  la_tab, la_years,      \* tab, meta.years
  la_awardsByYear, la_multiSeasonTeams, la_loadingAwards, la_error,
  la_load,               \* the running loadAwardsAcrossYears call: its locals
  la_mounted,
  la_deps                \* dependencies of the awards effect at the last commit

laVars == <<la_tab, la_years, la_awardsByYear, la_multiSeasonTeams,
            la_loadingAwards, la_error, la_load, la_mounted, la_deps>>

VARIABLES
  \* ---- scripts/pull_latest.sh (PROJECT_CONTEXT.md) ----
  pl_pc,         \* the line the shell is at
  pl_envSeason,  \* SEASON in the environment of the script
  pl_maxYear,    \* webapp.config.MAX_YEAR
  pl_venv,       \* .venv/bin/activate is a file
  pl_season,     \* the shell variable SEASON
  pl_running,    \* the child process the shell waits for, or NoProc
  pl_runs,       \* history: the commands that have exited, with their status
  pl_exit        \* exit status of the script, or Running

plVars == <<pl_pc, pl_envSeason, pl_maxYear, pl_venv, pl_season, pl_running,
            pl_runs, pl_exit>>

VARIABLES
  \* ---- aggregate cache (backend, described in the specification) ----
  ch_cache,      \* key -> the aggregate object the cache serves for the key
  ch_objects,    \* aggregate object -> its rows; a row holds the rebuild that wrote it
  ch_lock,       \* key -> the rebuild holding the key, or NoWriter
  ch_writer,     \* rebuild -> its position
  ch_reader,     \* reader -> its position and the rows it has read
  ch_nextId,     \* the next fresh aggregate object
  ch_published   \* history: key -> the aggregates the cache has served

chVars == <<ch_cache, ch_objects, ch_lock, ch_writer, ch_reader, ch_nextId,
            ch_published>>

VARIABLES
  \* ---- OpponentAnalysisTab, year range and opponent-matrix fetch ----
  of_availableYears, \* prop availableYears
  of_year,           \* prop year, 0 when not given
  of_selectedTeamId, \* prop selectedTeamId, 0 for null
  of_minYear,        \* 0 for null
  of_maxYear,        \* 0 for null
  of_ownerEraOnly,
  of_data,           \* the payload shown, or NoMatrix
  of_loading,
  of_error,
  of_inflight,       \* getOpponentMatrixMulti promises not yet settled
  of_issued,         \* history: number of requests sent
  of_mounted,        \* the first commit has happened
  of_dropped         \* history: the latest event was the arrival of the
                     \* outcome of a cancelled request

ofVars == <<of_availableYears, of_year, of_selectedTeamId, of_minYear,
            of_maxYear, of_ownerEraOnly, of_data, of_loading, of_error,
            of_inflight, of_issued, of_mounted, of_dropped>>

VARIABLES
  \* ---- App (src/unnamed/part_001) ----
  ap_tab,
  ap_meta,
  ap_year,
  ap_week,
  ap_weekPower, ap_seasonPower, ap_standingsLeague,
  ap_historyTeamId,  \* 0 for null
  ap_historyData,
  ap_loadingHistory, ap_loadingMeta, ap_loadingWeek, ap_loadingSeason,
  ap_loadingLeague,
  ap_error,
  ap_inflight,       \* bag of the requests not yet settled; a meta request
                     \* carries the closure of the load awaiting it
  ap_mounted,        \* the first commit has happened
  ap_raw,            \* history: the body of the latest successful meta response
  ap_weekAsked,      \* history: a week-power request for the selected
                     \* (year, week) was sent since the week was last selected
  ap_userActions,    \* history: number of user actions so far
  ap_failures        \* history: number of failed requests so far

apVars == <<ap_tab, ap_meta, ap_year, ap_week, ap_weekPower, ap_seasonPower,
            ap_standingsLeague, ap_historyTeamId, ap_historyData,
            ap_loadingHistory, ap_loadingMeta, ap_loadingWeek,
            ap_loadingSeason, ap_loadingLeague, ap_error, ap_inflight,
            ap_mounted, ap_raw, ap_weekAsked, ap_userActions,
            ap_failures>>

VARIABLES
  \* ---- App (src/unnamed/part_000) ----
  p0_tab,
  p0_meta,
  p0_year,
  p0_week,
  p0_weekPower, p0_seasonPower, p0_leagueInfo,
  p0_selectedTeamId, \* 0 for null
  p0_teamHistory,
  p0_loadingMeta, p0_loadingWeek, p0_loadingSeason, p0_loadingLeague,
  p0_loadingHistory,
  p0_error,
  p0_inflight,       \* bag of the requests not yet settled; a meta request
                     \* carries the closure of the load awaiting it
  p0_mounted,        \* the first commit has happened
  p0_prevTeam,       \* history: the team selected when the year was last
                     \* changed, 0 once the user picks a team again
  p0_yearChanges,    \* history: number of changes of the Year select
  p0_teamChanges,    \* history: number of changes of the Team select
  p0_tabChanges      \* history: number of clicks on a tab button

p0Vars == <<p0_tab, p0_meta, p0_year, p0_week, p0_weekPower, p0_seasonPower,
            p0_leagueInfo, p0_selectedTeamId, p0_teamHistory, p0_loadingMeta,
            p0_loadingWeek, p0_loadingSeason, p0_loadingLeague,
            p0_loadingHistory, p0_error, p0_inflight, p0_mounted,
            p0_prevTeam, p0_yearChanges, p0_teamChanges, p0_tabChanges>>

VARIABLES
  \* ---- requests sent through src/unnamed/part_002 (api/client.js) ----
  rq_site,   \* the handler or effect that ran last
  rq_sent    \* the requests it passed to fetch()

rqVars == <<rq_site, rq_sent>>

vars == <<awVars, omVars, dbVars, laVars, plVars, chVars, ofVars, apVars, p0Vars, rqVars>>

\* A step of one component leaves the others as they are.
AwFrame == UNCHANGED <<omVars, dbVars, laVars, plVars, chVars, ofVars, apVars, p0Vars, rqVars>>
OmFrame == UNCHANGED <<awVars, dbVars, laVars, plVars, chVars, ofVars, apVars, p0Vars, rqVars>>
DbFrame == UNCHANGED <<awVars, omVars, laVars, plVars, chVars, ofVars, apVars, p0Vars, rqVars>>
LaFrame == UNCHANGED <<awVars, omVars, dbVars, plVars, chVars, ofVars, apVars, p0Vars, rqVars>>
PlFrame == UNCHANGED <<awVars, omVars, dbVars, laVars, chVars, ofVars, apVars, p0Vars, rqVars>>
ChFrame == UNCHANGED <<awVars, omVars, dbVars, laVars, plVars, ofVars, apVars, p0Vars, rqVars>>
OfFrame == UNCHANGED <<awVars, omVars, dbVars, laVars, plVars, chVars, apVars, p0Vars, rqVars>>
ApFrame == UNCHANGED <<awVars, omVars, dbVars, laVars, plVars, chVars, ofVars, p0Vars, rqVars>>
P0Frame == UNCHANGED <<awVars, omVars, dbVars, laVars, plVars, chVars, ofVars, apVars, rqVars>>
RqFrame == UNCHANGED <<awVars, omVars, dbVars, laVars, plVars, chVars, ofVars, apVars, p0Vars>>

\* JavaScript null, for string-valued state.
Null == "null"

----------------------------------------------------------------------------
(***************************************************************************)
(* AwardsTab                                                               *)
(***************************************************************************)

\* Largest value of reqSeq.current explored (number of fetch effect runs).
MaxReq == 5

Scopes == {"league", "team", "owner"}
Modes == {"summary", "year_by_year"}
\* Values of the Year select: "all_time" and the years of metaYears.
AwYears == {"all_time", "2025"}
\* seasonPower.teams before and after the season power has loaded.
AwTeamLists == {<<>>, <<"1", "2">>}
\* The owners array a response of /api/analysis/awards may carry.
AwOwnerLists == {<<>>, <<"o1", "o2">>}

SeqToSet(s) == {s[i] : i \in 1..Len(s)}

\* data = null
NullData == [present |-> FALSE, owners |-> <<>>, scope |-> "", mode |-> ""]
\* A response payload; scope and mode record the request it answers.
Payload(owners, scope, mode) ==
  [present |-> TRUE, owners |-> owners, scope |-> scope, mode |-> mode]

\* The state one render sees (the closure of its effects).
AwCur ==
  [scope |-> aw_scope, mode |-> aw_mode, year |-> aw_year,
   teamId |-> aw_teamId, ownerCode |-> aw_ownerCode,
   era |-> aw_currentOwnerEraOnly, ownersCache |-> aw_ownersCache,
   data |-> aw_data, teams |-> aw_teams]

\* const owners = useMemo(...): live owners of data, else the cache.
AwOwners(s) ==
  IF s.data.present /\ s.data.owners # <<>> THEN s.data.owners ELSE s.ownersCache

\* Effect "Cache owners from any successful response", deps [data].
OwnersCacheEffect(s) ==
  IF s.data.present /\ s.data.owners # <<>> THEN s.data.owners ELSE s.ownersCache

\* Effect "Scope change cleanup + auto-picks", deps [scope, teams]: teamId.
ScopeEffectTeamId(s) ==
  CASE s.scope = "league" -> ""
    [] s.scope = "team" ->
         IF s.teamId # "" THEN s.teamId
         ELSE IF Len(s.teams) > 0 THEN s.teams[1] ELSE ""
    [] OTHER -> ""

\* Same effect: ownerCode.
ScopeEffectOwnerCode(s) ==
  CASE s.scope = "league" -> ""
    [] s.scope = "team" -> ""
    [] OTHER ->
         IF s.ownerCode # "" THEN s.ownerCode
         ELSE IF Len(s.ownersCache) > 0 THEN s.ownersCache[1] ELSE ""

\* A mode reset effect that was left out.
ModeResetEffectMissing(s) == s.mode

\* Effect "League scope only supports summary in the UI", deps [scope, mode].
ModeResetEffect(s) ==
  IF s.scope = "league" /\ s.mode # "summary" THEN "summary" ELSE s.mode

\* A run() whose TEAM branch falls through to the request.
RunNoTeamGuard(s) ==
  CASE s.scope = "owner" /\ s.ownerCode = "" /\ Len(s.ownersCache) > 0 ->
         "ownerCached"
    [] s.scope = "owner" /\ s.ownerCode = "" -> "prime"
    [] OTHER -> "fetch"

\* run() of the fetch effect: the branch it takes.
Run(s) ==
  CASE s.scope = "team" /\ s.teamId = "" -> "teamWait"
    [] s.scope = "owner" /\ s.ownerCode = "" /\ Len(s.ownersCache) > 0 ->
         "ownerCached"
    [] s.scope = "owner" /\ s.ownerCode = "" -> "prime"
    [] OTHER -> "fetch"

\* The getAwards call of a run(), if it makes one.
RunRequest(s, id) ==
  CASE Run(s) = "prime" ->
         {[id |-> id, cancelled |-> FALSE, kind |-> "prime",
           scope |-> "league", mode |-> "summary"]}
    [] Run(s) = "fetch" ->
         {[id |-> id, cancelled |-> FALSE, kind |-> "fetch",
           scope |-> s.scope, mode |-> s.mode]}
    [] OTHER -> {}

FetchDeps(s) == <<s.scope, s.mode, s.year, s.teamId, s.ownerCode, s.era>>

\* An effect runs on mount and whenever its dependencies changed.
AwFired(d, e) == ~aw_mounted \/ d # e

AwPending == ~aw_mounted \/ AwCur # aw_rendered

AwInit ==
  /\ aw_scope = "league"
  /\ aw_mode = "summary"
  /\ aw_year = "all_time"
  /\ aw_teamId = ""
  /\ aw_ownerCode = ""
  /\ aw_currentOwnerEraOnly = TRUE
  /\ aw_ownersCache = <<>>
  /\ aw_data = NullData
  /\ aw_loading = FALSE
  /\ aw_err = Null
  /\ aw_reqSeq = 0
  /\ aw_inflight = {}
  /\ aw_teams \in AwTeamLists
  /\ aw_mounted = FALSE
  /\ aw_rendered = AwCur
  /\ aw_lastRun = "none"
  /\ aw_dropped = FALSE

\* One commit of the state s: render it, run the effects whose dependencies
\* changed since the previous commit (owners cache, scope cleanup, mode
\* reset, fetch, error reset, in that order) and apply the updates they
\* queue.
AwCommitOf(s) ==
  LET p == aw_rendered
      fCache == AwFired(s.data, p.data)
      fScope == AwFired(<<s.scope, s.teams>>, <<p.scope, p.teams>>)
      fMode == AwFired(<<s.scope, s.mode>>, <<p.scope, p.mode>>)
      fFetch == AwFired(FetchDeps(s), FetchDeps(p))
      br == Run(s)
  IN
  /\ fFetch => aw_reqSeq < MaxReq
  /\ aw_scope' = s.scope
  /\ aw_year' = s.year
  /\ aw_currentOwnerEraOnly' = s.era
  /\ aw_teams' = s.teams
  /\ aw_ownersCache' = IF fCache THEN OwnersCacheEffect(s) ELSE s.ownersCache
  /\ aw_teamId' = IF fScope THEN ScopeEffectTeamId(s) ELSE s.teamId
  /\ aw_ownerCode' =
       IF fFetch /\ br = "ownerCached" THEN s.ownersCache[1]
       ELSE IF fScope THEN ScopeEffectOwnerCode(s) ELSE s.ownerCode
  /\ aw_mode' = IF fMode THEN ModeResetEffect(s) ELSE s.mode
  /\ aw_data' = IF fFetch /\ br = "teamWait" THEN NullData ELSE s.data
  \* setErrSafe(null) in run(), then the effect setErr(null) on the same deps
  /\ aw_err' = IF fFetch THEN Null ELSE aw_err
  /\ aw_loading' =
       IF ~fFetch \/ br = "ownerCached" THEN aw_loading
       ELSE IF br = "teamWait" THEN FALSE ELSE TRUE
  /\ aw_reqSeq' = IF fFetch THEN aw_reqSeq + 1 ELSE aw_reqSeq
  \* the cleanup of the previous run sets its cancelled flag
  /\ aw_inflight' =
       IF fFetch
       THEN {[r EXCEPT !.cancelled = TRUE] : r \in aw_inflight}
            \cup RunRequest(s, aw_reqSeq + 1)
       ELSE aw_inflight
  /\ aw_lastRun' = IF fFetch THEN br ELSE aw_lastRun
  /\ aw_dropped' = FALSE
  /\ aw_rendered' = s
  /\ aw_mounted' = TRUE
  /\ AwFrame

\* The first render, and every render scheduled by a state update that an
\* effect or a promise continuation made.
AwCommit ==
  /\ AwPending
  /\ AwCommitOf(AwCur)

\* The handlers below are discrete DOM events: React renders their update
\* and runs the effects of that render before the event returns.

\* Scope select.
AwSetScope ==
  /\ aw_mounted
  /\ \E v \in Scopes \ {aw_scope} : AwCommitOf([AwCur EXCEPT !.scope = v])

\* Mode select: disabled, and without its year_by_year option, while the
\* rendered scope is league.
AwSetMode ==
  /\ aw_mounted
  /\ aw_rendered.scope # "league"
  /\ \E v \in Modes \ {aw_mode} : AwCommitOf([AwCur EXCEPT !.mode = v])

\* Year select.
AwSetYear ==
  /\ aw_mounted
  /\ \E v \in AwYears \ {aw_year} : AwCommitOf([AwCur EXCEPT !.year = v])

\* Team select, rendered while scope = team: "Select..." or a team.
AwSetTeamId ==
  /\ aw_mounted
  /\ aw_rendered.scope = "team"
  /\ \E v \in ({""} \cup SeqToSet(aw_rendered.teams)) \ {aw_teamId} :
       AwCommitOf([AwCur EXCEPT !.teamId = v])

\* Owner select, rendered while scope = owner: "Select..." or an owner.
AwSetOwnerCode ==
  /\ aw_mounted
  /\ aw_rendered.scope = "owner"
  /\ \E v \in ({""} \cup SeqToSet(AwOwners(aw_rendered))) \ {aw_ownerCode} :
       AwCommitOf([AwCur EXCEPT !.ownerCode = v])

\* "Current owner era only" checkbox, rendered for team and owner scope.
AwSetCurrentOwnerEraOnly ==
  /\ aw_mounted
  /\ aw_rendered.scope \in {"team", "owner"}
  /\ AwCommitOf([AwCur EXCEPT !.era = ~aw_currentOwnerEraOnly])

\* The parent renders with a new seasonPower (the season power loaded).
AwSeasonPowerProp ==
  /\ aw_mounted
  /\ \E v \in AwTeamLists \ {aw_teams} : AwCommitOf([AwCur EXCEPT !.teams = v])

\* No request sequencing guard: every outcome is applied.
AwLiveUnguarded(r) == TRUE

\* The guard of setLoadingSafe / setErrSafe / setDataSafe and of the
\* continuations after await.
AwLive(r) == ~r.cancelled /\ r.id = aw_reqSeq

\* getAwards resolves.
AwResolve ==
  \E r \in aw_inflight, owners \in AwOwnerLists :
    /\ aw_inflight' = aw_inflight \ {r}
    /\ aw_dropped' = (r.cancelled \/ r.id # aw_reqSeq)
    /\ IF ~AwLive(r)
       THEN UNCHANGED <<aw_data, aw_loading, aw_ownersCache, aw_ownerCode,
                        aw_lastRun>>
       ELSE IF r.kind = "prime"
       THEN /\ aw_ownersCache' = IF owners # <<>> THEN owners ELSE aw_ownersCache
            /\ aw_ownerCode' = IF owners # <<>> THEN owners[1] ELSE aw_ownerCode
            /\ aw_loading' = FALSE
            /\ aw_lastRun' = IF owners # <<>> THEN "primeOwners" ELSE "primeEmpty"
            /\ UNCHANGED aw_data
       ELSE /\ aw_data' = Payload(owners, r.scope, r.mode)
            /\ aw_loading' = FALSE
            /\ UNCHANGED <<aw_ownersCache, aw_ownerCode, aw_lastRun>>
    /\ UNCHANGED <<aw_scope, aw_mode, aw_year, aw_teamId,
                   aw_currentOwnerEraOnly, aw_err, aw_reqSeq, aw_teams,
                   aw_mounted, aw_rendered>>
    /\ AwFrame

\* getAwards rejects.
AwReject ==
  \E r \in aw_inflight :
    /\ aw_inflight' = aw_inflight \ {r}
    /\ aw_dropped' = (r.cancelled \/ r.id # aw_reqSeq)
    /\ IF ~AwLive(r)
       THEN UNCHANGED <<aw_data, aw_loading, aw_err, aw_lastRun>>
       ELSE /\ aw_err' = "Awards fetch failed"
            /\ aw_data' = IF r.kind = "fetch" THEN NullData ELSE aw_data
            /\ aw_loading' = FALSE
            /\ aw_lastRun' = IF r.kind = "prime" THEN "primeFailed" ELSE aw_lastRun
    /\ UNCHANGED <<aw_scope, aw_mode, aw_year, aw_teamId, aw_ownerCode,
                   aw_currentOwnerEraOnly, aw_ownersCache, aw_reqSeq, aw_teams,
                   aw_mounted, aw_rendered>>
    /\ AwFrame

AwNext ==
  \/ AwSetScope
  \/ AwSetMode
  \/ AwSetYear
  \/ AwSetTeamId
  \/ AwSetOwnerCode
  \/ AwSetCurrentOwnerEraOnly
  \/ AwSeasonPowerProp
  \/ AwCommit
  \/ AwResolve
  \/ AwReject

\* No render, effect or state update is outstanding.
AwSettled == aw_mounted /\ ~AwPending

\* C1: no getAwards call is ever made with scope = "league" and a mode other
\* than "summary" (a request in flight is a call that was made).
C1_NoLeagueYearByYearRequest ==
  \A r \in aw_inflight : r.scope = "league" => r.mode = "summary"

\* C2: when the fetch effect runs with scope = "team" and an empty teamId it
\* sends no request and leaves data = null, err = null, loading = false; this
\* stays so until the effect runs again.
C2_TeamWithoutIdIsEmpty ==
  (aw_mounted /\ aw_rendered.scope = "team" /\ aw_rendered.teamId = "") =>
    /\ aw_lastRun = "teamWait"
    /\ aw_data = NullData
    /\ aw_err = Null
    /\ aw_loading = FALSE
    /\ \A r \in aw_inflight : r.id # aw_reqSeq

\* C2 witness: the team branch ran while an earlier request was still in
\* flight, and the tab is empty without an error.
C2_Witness ==
  /\ aw_lastRun = "teamWait"
  /\ aw_rendered.scope = "team" /\ aw_rendered.teamId = ""
  /\ aw_data = NullData /\ aw_err = Null /\ aw_loading = FALSE
  /\ \E r \in aw_inflight : r.cancelled

\* C3: in owner scope with no resolvable owner code, once the priming request
\* has returned no owners the tab holds no awards payload and no error.
C3_OwnerWithoutCodeIsEmpty ==
  aw_lastRun = "primeEmpty" => (~aw_data.present /\ aw_err = Null)

\* C8: whenever nothing is pending, scope = "league" implies mode = "summary".
C8_LeagueImpliesSummary ==
  (AwSettled /\ aw_scope = "league") => aw_mode = "summary"

\* C8 witness: the tab has settled in league/summary after a render with
\* scope = "league" and mode = "year_by_year" (whose request is still in flight).
C8_Witness ==
  /\ AwSettled
  /\ aw_scope = "league" /\ aw_mode = "summary"
  /\ \E r \in aw_inflight : r.scope = "league" /\ r.mode = "year_by_year"

\* C12: a step in which a request settles that a later run of the fetch
\* effect has superseded (its cleanup has run, or reqSeq has moved on)
\* changes none of data, err, loading, ownersCache, ownerCode.
C12_SupersededOutcomeIgnored ==
  [][\A r \in aw_inflight :
       (aw_inflight' = aw_inflight \ {r} /\ (r.cancelled \/ r.id # aw_reqSeq)) =>
         UNCHANGED <<aw_data, aw_err, aw_loading, aw_ownersCache,
                     aw_ownerCode>>]_vars

\* C12 witness: the outcome of a superseded request has arrived while the
\* request of the latest run is still in flight, and the tab still shows
\* that load as running.
C12_Witness ==
  /\ aw_dropped
  /\ aw_loading
  /\ \E r \in aw_inflight : r.id = aw_reqSeq /\ ~r.cancelled
  /\ \A r \in aw_inflight : r.id = aw_reqSeq

----------------------------------------------------------------------------
(***************************************************************************)
(* OpponentAnalysisTab: the matrix derived from the payload                *)
(*                                                                         *)
(* Numbers: a count is a natural number; a win percentage p is the         *)
(* fraction <<num, den>>; an avgDiff is an integer (a scaled z            *)
(* difference); a cell of the z matrix, (v - mean) / std, is kept exactly   *)
(* as <<sign, num, den>> = sign * sqrt(num / den).  Absent stands for a     *)
(* field that is undefined or null in the JSON payload.  rangeLabel, which  *)
(* only formats data.minYear / data.maxYear, is not modelled.               *)
(***************************************************************************)

\* Most rows in an opponent-matrix payload.
MaxRows == 2
\* Largest wins / losses / ties / matchups count in a payload row.
MaxCount == 1

Absent == -999

METRIC_MODES == {"catWinPct", "zDiff", "recordWinPct"}
OppNames == {"A", "B"}
\* Categories the payload rows may carry an entry for.
PayloadCats == {"PTS"}
\* Values of the categories prop.
CategoryLists == {<<>>, <<"PTS">>, <<"PTS", "REB">>}

CountVals == {Absent} \cup (0..MaxCount)

NoOverall ==
  [present |-> FALSE, wins |-> Absent, losses |-> Absent, ties |-> Absent,
   winPct |-> Absent]
NoCatStats == [present |-> FALSE, winPct |-> Absent, avgDiff |-> Absent]
NoOppData == [present |-> FALSE, rows |-> <<>>]

\* r.overall of rows that vary the head-to-head record.
RecordOveralls ==
  {NoOverall}
  \cup {[present |-> TRUE, wins |-> w, losses |-> l, ties |-> x, winPct |-> Absent] :
          w \in CountVals, l \in CountVals, x \in CountVals}
  \cup {[present |-> TRUE, wins |-> 1, losses |-> 0, ties |-> 0, winPct |-> 100]}

\* Rows that vary the overall record and the top-level matchups field.
RecordRows ==
  [opponentName : OppNames, overall : RecordOveralls, matchups : CountVals,
   categories : {[c \in PayloadCats |-> NoCatStats]}]

\* Category entries: absent, or with each of winPct / avgDiff given or not.
CatStatsVals ==
  {NoCatStats,
   [present |-> TRUE, winPct |-> 100, avgDiff |-> Absent],
   [present |-> TRUE, winPct |-> Absent, avgDiff |-> 2],
   [present |-> TRUE, winPct |-> 0, avgDiff |-> -1]}

\* Rows that vary the category entries.
ShapeRows ==
  [opponentName : OppNames,
   overall : {NoOverall,
              [present |-> TRUE, wins |-> 1, losses |-> 0, ties |-> 1,
               winPct |-> Absent]},
   matchups : {Absent},
   categories : [PayloadCats -> CatStatsVals]]

SeqsUpTo(S, n) == UNION {[1..k -> S] : k \in 0..n}

OppPayload(rows) == [present |-> TRUE, rows |-> rows]

\* x ?? 0
OrZero(x) == IF x = Absent THEN 0 ELSE x

\* wins + losses + ties || 1
RecordTotal(o) ==
  LET sum == OrZero(o.wins) + OrZero(o.losses) + OrZero(o.ties)
  IN IF sum = 0 THEN 1 ELSE sum

\* typeof overall.winPct === "number" ? overall.winPct
\*                                     : (wins + 0.5 * ties) / total
RecordWinPct(o) ==
  IF o.winPct # Absent THEN <<o.winPct, 100>>
  ELSE <<2 * OrZero(o.wins) + OrZero(o.ties), 2 * RecordTotal(o)>>

\* The recordMap entry of one row.
RecordOf(r) ==
  [wins |-> OrZero(r.overall.wins),
   losses |-> OrZero(r.overall.losses),
   ties |-> OrZero(r.overall.ties),
   winPct |-> RecordWinPct(r.overall),
   matchups |-> IF r.matchups # Absent THEN r.matchups ELSE RecordTotal(r.overall)]

\* recordMap: rows.forEach assigns recordMap[r.opponentName], so the last row
\* of a name wins.
RecordMap(rows) ==
  [n \in {rows[i].opponentName : i \in 1..Len(rows)} |->
     LET last == CHOOSE i \in 1..Len(rows) :
                   /\ rows[i].opponentName = n
                   /\ \A j \in 1..Len(rows) : rows[j].opponentName = n => j <= i
     IN RecordOf(rows[last])]

\* r.categories?.[cat]
CatStatsOf(r, cat) ==
  IF cat \in DOMAIN r.categories THEN r.categories[cat] ELSE NoCatStats

\* A catWinPct cell that reads a missing entry as a loss.
CatWinPctCellZero(r, cat) ==
  LET cs == CatStatsOf(r, cat)
  IN IF ~cs.present THEN <<0, 2>>
     ELSE IF cs.winPct # Absent THEN <<cs.winPct, 100>> ELSE <<1, 2>>

\* One cell of mode catWinPct; 0.5 is <<1, 2>>.
CatWinPctCell(r, cat) ==
  LET cs == CatStatsOf(r, cat)
  IN IF ~cs.present THEN <<1, 2>>
     ELSE IF cs.winPct # Absent THEN <<cs.winPct, 100>> ELSE <<1, 2>>

\* One cell of diffMatrix.
DiffCell(r, cat) ==
  LET cs == CatStatsOf(r, cat)
  IN IF cs.present /\ cs.avgDiff # Absent THEN cs.avgDiff ELSE 0

RECURSIVE SumSeq(_)
SumSeq(s) == IF s = <<>> THEN 0 ELSE Head(s) + SumSeq(Tail(s))

\* One row of zMatrix: (v - mean) / std with std = sqrt(variance) || 1.
\* With d[i] = n * v[i] - sum(v): z[i] = sign(d[i]) * sqrt(n * d[i]^2 / sum(d^2)).
ZRow(row) ==
  LET n == Len(row)
      d == [i \in 1..n |-> n * row[i] - SumSeq(row)]
      dd == SumSeq([i \in 1..n |-> d[i] * d[i]])
  IN [i \in 1..n |->
        IF dd = 0 THEN <<0, 0, 1>>
        ELSE <<(IF d[i] > 0 THEN 1 ELSE IF d[i] < 0 THEN -1 ELSE 0),
               n * d[i] * d[i], dd>>]

EmptyMatrix(metricMode) ==
  [opponents |-> <<>>, rowLabels |-> <<>>, values |-> <<>>,
   colorMode |-> IF metricMode = "zDiff" THEN "zDiff" ELSE "winPct",
   recordByOpponent |-> <<>>]

\* The matrix useMemo.
Matrix(data, metricMode, cats) ==
  IF ~data.present \/ Len(data.rows) = 0 \/ Len(cats) = 0
  THEN EmptyMatrix(metricMode)
  ELSE
    LET rows == data.rows
        oppNames == [i \in 1..Len(rows) |-> rows[i].opponentName]
    IN CASE metricMode = "catWinPct" ->
              [opponents |-> oppNames, rowLabels |-> cats,
               values |-> [c \in 1..Len(cats) |->
                             [i \in 1..Len(rows) |-> CatWinPctCell(rows[i], cats[c])]],
               colorMode |-> "winPct", recordByOpponent |-> RecordMap(rows)]
         [] metricMode = "zDiff" ->
              [opponents |-> oppNames, rowLabels |-> cats,
               values |-> [c \in 1..Len(cats) |->
                             ZRow([i \in 1..Len(rows) |-> DiffCell(rows[i], cats[c])])],
               colorMode |-> "zDiff", recordByOpponent |-> RecordMap(rows)]
         [] metricMode = "recordWinPct" ->
              [opponents |-> oppNames, rowLabels |-> <<"Record">>,
               values |-> <<[i \in 1..Len(rows) |-> RecordWinPct(rows[i].overall)]>>,
               colorMode |-> "winPct", recordByOpponent |-> RecordMap(rows)]
         [] OTHER -> EmptyMatrix(metricMode)

OmInit ==
  /\ om_data = NoOppData
  /\ om_metricMode = "catWinPct"
  /\ om_categories \in CategoryLists
  /\ om_matrix = Matrix(om_data, om_metricMode, om_categories)

\* setData(payload) of the first fetch that succeeds, and the render that
\* follows it.
OmSetData(rowSet) ==
  /\ ~om_data.present
  /\ \E rows \in SeqsUpTo(rowSet, MaxRows) : om_data' = OppPayload(rows)
  /\ om_matrix' = Matrix(om_data', om_metricMode, om_categories)
  /\ UNCHANGED <<om_metricMode, om_categories>>
  /\ OmFrame

\* The metric mode buttons.
OmSetMetricMode ==
  /\ \E v \in METRIC_MODES \ {om_metricMode} : om_metricMode' = v
  /\ om_matrix' = Matrix(om_data, om_metricMode', om_categories)
  /\ UNCHANGED <<om_data, om_categories>>
  /\ OmFrame

----------------------------------------------------------------------------
(***************************************************************************)
(* DashboardTab: sorting of the power tables                               *)
(*                                                                         *)
(* z values are integers (scaled z-scores); Absent is a field that is not  *)
(* a number.  Array.prototype.sort is a stable sort, modelled by insertion. *)
(***************************************************************************)

\* Most teams in weekPower.teams.
MaxTeams == 2
\* Largest |z| in a row.
MaxZ == 1

\* a.rank ?? 999
RankDefault == 999
\* Number.NEGATIVE_INFINITY, below every modelled z value.
NegInfinity == -1000

\* The categories prop (CATEGORIES of the App), one category here.
DbCats == <<"PTS">>
TeamNames == {"A", "B"}
\* localeCompare order of the team names.
NameOrder == [n \in TeamNames |-> IF n = "A" THEN 1 ELSE 2]

ZVals == {Absent} \cup ((0 - MaxZ)..MaxZ)

\* Rows of weekPower.teams; with one category totalZ, the sum of the
\* category z-scores, is the z-score of that category.
WeekRows ==
  {[teamName |-> n, rank |-> r, totalZ |-> z, catZ |-> z] :
     n \in TeamNames, r \in {Absent} \cup (1..MaxTeams), z \in ZVals}

\* seasonPower.teams, a prop that is loaded or not.
SeasonTeamLists ==
  {<<>>,
   <<[teamName |-> "A", rank |-> 1, avgTotalZ |-> 1, sumTotalZ |-> 2],
     [teamName |-> "B", rank |-> 2, avgTotalZ |-> -1, sumTotalZ |-> Absent]>>}

WeekFields == {"RANK", "TOTAL_Z", "TEAM_NAME"} \cup SeqToSet(DbCats)
SeasonFields == {"RANK", "AVG_TOTAL_Z", "SUM_TOTAL_Z", "TEAM_NAME"}

Sign(x) == IF x > 0 THEN 1 ELSE IF x < 0 THEN -1 ELSE 0

\* compareStrings
CompareStrings(a, b, dir) ==
  LET cmp == Sign(NameOrder[a] - NameOrder[b])
  IN IF dir = "ASC" THEN cmp ELSE 0 - cmp

\* compareNumbers
CompareNumbers(a, b, dir) ==
  LET na == IF a # Absent THEN a ELSE NegInfinity
      nb == IF b # Absent THEN b ELSE NegInfinity
  IN IF na = nb THEN 0
     ELSE IF dir = "ASC" THEN Sign(na - nb) ELSE Sign(nb - na)

\* The RANK branch of both comparators.
CompareRanks(a, b, dir) ==
  LET av == IF a.rank # Absent THEN a.rank ELSE RankDefault
      bv == IF b.rank # Absent THEN b.rank ELSE RankDefault
  IN IF dir = "ASC" THEN Sign(av - bv) ELSE Sign(bv - av)

\* The comparator of sortedWeekTeams.  A field that is none of TEAM_NAME,
\* RANK, TOTAL_Z is read as a category: perCategoryZ[field + "_z"], which is
\* undefined when the field is no category.
WeekCompare(a, b, field, dir) ==
  CASE field = "TEAM_NAME" -> CompareStrings(a.teamName, b.teamName, dir)
    [] field = "RANK" -> CompareRanks(a, b, dir)
    [] field = "TOTAL_Z" -> CompareNumbers(a.totalZ, b.totalZ, dir)
    [] OTHER ->
         LET av == IF field \in SeqToSet(DbCats) THEN a.catZ ELSE Absent
             bv == IF field \in SeqToSet(DbCats) THEN b.catZ ELSE Absent
         IN CompareNumbers(av, bv, dir)

\* The comparator of sortedSeasonTeams.
SeasonCompare(a, b, field, dir) ==
  CASE field = "TEAM_NAME" -> CompareStrings(a.teamName, b.teamName, dir)
    [] field = "RANK" -> CompareRanks(a, b, dir)
    [] field = "AVG_TOTAL_Z" -> CompareNumbers(a.avgTotalZ, b.avgTotalZ, dir)
    [] field = "SUM_TOTAL_Z" -> CompareNumbers(a.sumTotalZ, b.sumTotalZ, dir)
    [] OTHER -> 0

\* [...list].sort(cmp): a stable sort.  notAfter holds the pairs <<y, x>> of
\* elements with cmp(y, x) <= 0; x goes behind every such y before it.
RECURSIVE StableSort(_, _)
StableSort(list, notAfter) ==
  IF list = <<>> THEN <<>>
  ELSE
    LET n == Len(list)
        x == list[n]
        init == StableSort(SubSeq(list, 1, n - 1), notAfter)
        NotAfter(y) == <<y, x>> \in notAfter
        After(y) == <<y, x>> \notin notAfter
    IN SelectSeq(init, NotAfter) \o <<x>> \o SelectSeq(init, After)

SortedWeekTeams(teams, field, dir) ==
  StableSort(teams, {p \in SeqToSet(teams) \X SeqToSet(teams) :
                       WeekCompare(p[1], p[2], field, dir) <= 0})
SortedSeasonTeams(teams, field, dir) ==
  StableSort(teams, {p \in SeqToSet(teams) \X SeqToSet(teams) :
                       SeasonCompare(p[1], p[2], field, dir) <= 0})

\* What one render of the state (view, field, dir, teams) shows.
DbRender(view, field, dir, weekTeams, seasonTeams) ==
  /\ db_view' = view
  /\ db_sortField' = field
  /\ db_sortDirection' = dir
  /\ db_weekTeams' = weekTeams
  /\ db_seasonTeams' = seasonTeams
  /\ db_sortedWeekTeams' = SortedWeekTeams(weekTeams, field, dir)
  /\ db_sortedSeasonTeams' = SortedSeasonTeams(seasonTeams, field, dir)
  /\ DbFrame

DbInit ==
  /\ db_view = "weekly"
  /\ db_sortField = "RANK"
  /\ db_sortDirection = "ASC"
  /\ db_weekTeams = <<>>
  /\ db_seasonTeams = <<>>
  /\ db_sortedWeekTeams = <<>>
  /\ db_sortedSeasonTeams = <<>>

\* The fields the table of the current view has a sort header for.
DbHeaderFields == IF db_view = "season" THEN SeasonFields ELSE WeekFields

\* handleSort(field): a click on a column header.
DbHandleSort ==
  \E field \in DbHeaderFields :
    IF db_sortField = field
    THEN DbRender(db_view, db_sortField,
                  IF db_sortDirection = "ASC" THEN "DESC" ELSE "ASC",
                  db_weekTeams, db_seasonTeams)
    ELSE DbRender(db_view, field, IF field = "RANK" THEN "ASC" ELSE "DESC",
                  db_weekTeams, db_seasonTeams)

\* "Sort by" select: setSortField.
DbSetSortField ==
  \E field \in DbHeaderFields \ {db_sortField} :
    DbRender(db_view, field, db_sortDirection, db_weekTeams, db_seasonTeams)

\* "Direction" select: setSortDirection.
DbSetSortDirection ==
  \E dir \in {"ASC", "DESC"} \ {db_sortDirection} :
    DbRender(db_view, db_sortField, dir, db_weekTeams, db_seasonTeams)

\* View buttons: setView.
DbSetView ==
  \E view \in {"weekly", "season"} \ {db_view} :
    DbRender(view, db_sortField, db_sortDirection, db_weekTeams, db_seasonTeams)

\* The parent renders with the weekPower it has loaded.
DbWeekPowerProp ==
  /\ db_weekTeams = <<>>
  /\ \E teams \in SeqsUpTo(WeekRows, MaxTeams) \ {db_weekTeams} :
    DbRender(db_view, db_sortField, db_sortDirection, teams, db_seasonTeams)

\* The parent renders with a new seasonPower.
DbSeasonPowerProp ==
  \E teams \in SeasonTeamLists \ {db_seasonTeams} :
    DbRender(db_view, db_sortField, db_sortDirection, db_weekTeams, teams)

----------------------------------------------------------------------------
(***************************************************************************)
(* App.loadAwardsAcrossYears: awards and multi-season team statistics      *)
(*                                                                         *)
(* A season-power row carries, besides the fields the code reads, the      *)
(* franchise it belongs to (fr), and a teamHistoryAgg record the set of    *)
(* franchises folded into it (frs); the code reads neither.                *)
(* avgZAcrossSeasons and avgRank are kept as the fractions <<sum, count>>.  *)
(***************************************************************************)

\* Most teams in one season-power response.
MaxSeasonTeams == 2

\* meta.years once the meta has loaded.
LaYearList == <<2024, 2025>>
LaTabs == {"overview", "dashboard", "history"}
\* The franchise of a row: the league's team id, which a team keeps from
\* season to season while its name may change.
FranchiseOf(id) == id
\* teamName of a row; "" is an empty name.
LaTeamNames == {"A", "B", ""}
LaAvgVals == {Absent, -1, 1}

\* The rows of one response: distinct team ids, distinct names within the
\* season, rank by position, sumTotalZ over two weeks.
LaRow(i, id, name, avg) ==
  [teamId |-> id, teamName |-> name, fr |-> FranchiseOf(id), rank |-> i,
   avgTotalZ |-> avg,
   sumTotalZ |-> IF avg = Absent THEN Absent ELSE 2 * avg]

SeasonResponses ==
  {<<>>}
  \cup {<<LaRow(1, id, n, a)>> :
          id \in 1..MaxSeasonTeams, n \in LaTeamNames, a \in LaAvgVals}
  \cup {<<LaRow(1, ids[1], ns[1], a1), LaRow(2, ids[2], ns[2], a2)>> :
          ids \in {p \in (1..MaxSeasonTeams) \X (1..MaxSeasonTeams) : p[1] < p[2]},
          ns \in {p \in LaTeamNames \X LaTeamNames : p[1] # p[2] \/ p[1] = ""},
          a1 \in LaAvgVals, a2 \in LaAvgVals}

\* x ?? d
OrElse(x, d) == IF x = Absent THEN d ELSE x

\* The comparators of the sorts in loadAwardsAcrossYears, by name.
LaCompare(a, b, which) ==
  CASE which = "byRank" ->
         IF OrElse(a.rank, 999) # OrElse(b.rank, 999)
         THEN Sign(OrElse(a.rank, 999) - OrElse(b.rank, 999))
         ELSE Sign(OrElse(b.avgTotalZ, -999) - OrElse(a.avgTotalZ, -999))
    [] which = "bestAvg" ->
         Sign(OrElse(b.avgTotalZ, -999) - OrElse(a.avgTotalZ, -999))
    [] which = "worstAvg" ->
         Sign(OrElse(a.avgTotalZ, 999) - OrElse(b.avgTotalZ, 999))
    [] which = "bestSum" ->
         Sign(OrElse(b.sumTotalZ, -999) - OrElse(a.sumTotalZ, -999))
    [] which = "worstSum" ->
         Sign(OrElse(a.sumTotalZ, 999) - OrElse(b.sumTotalZ, 999))
    \* multiTeams.sort: b.avgZAcrossSeasons - a.avgZAcrossSeasons
    [] OTHER ->
         Sign(b.avgZAcrossSeasons[1] * a.avgZAcrossSeasons[2]
              - a.avgZAcrossSeasons[1] * b.avgZAcrossSeasons[2])

LaSort(list, which) ==
  StableSort(list, {p \in SeqToSet(list) \X SeqToSet(list) :
                      LaCompare(p[1], p[2], which) <= 0})

\* x?.teamName ?? "-" of the element at position i of a sorted list; a row
\* without a name has teamName "".
NameAt(list, i) == IF i >= 1 /\ i <= Len(list) THEN list[i].teamName ELSE "-"

\* The awards.push entry of year y.
AwardOf(y, teams) ==
  LET sortedByRank == LaSort(teams, "byRank")
      bestAvg == LaSort(teams, "bestAvg")[1]
      worstAvg == LaSort(teams, "worstAvg")[1]
      bestSum == LaSort(teams, "bestSum")[1]
      worstSum == LaSort(teams, "worstSum")[1]
  IN [year |-> y,
      champion |-> NameAt(sortedByRank, 1),
      second |-> NameAt(sortedByRank, 2),
      third |-> NameAt(sortedByRank, 3),
      last |-> NameAt(sortedByRank, Len(sortedByRank)),
      bestAvgZ |-> [team |-> bestAvg.teamName, value |-> OrElse(bestAvg.avgTotalZ, 0)],
      worstAvgZ |-> [team |-> worstAvg.teamName, value |-> OrElse(worstAvg.avgTotalZ, 0)],
      bestTotalZ |-> [team |-> bestSum.teamName, value |-> OrElse(bestSum.sumTotalZ, 0)],
      worstTotalZ |-> [team |-> worstSum.teamName, value |-> OrElse(worstSum.sumTotalZ, 0)]]

\* `Team ${t.teamId}`
TeamLabel(id) == IF id = 1 THEN "Team 1" ELSE IF id = 2 THEN "Team 2" ELSE "Team 3"

\* const key = t.teamName || `Team ${t.teamId}`
AggKey(t) == IF t.teamName # "" THEN t.teamName ELSE TeamLabel(t.teamId)

\* bestAvgZ: null
NoBest == [set |-> FALSE, year |-> 0, value |-> 0]
Best(y, v) == [set |-> TRUE, year |-> y, value |-> v]

NewAgg(key) ==
  [teamName |-> key, seasons |-> 0, ranks |-> <<>>, totalAvgZ |-> 0,
   totalSumZ |-> 0, bestAvgZ |-> NoBest, worstAvgZ |-> NoBest,
   bestTotalZ |-> NoBest, worstTotalZ |-> NoBest, frs |-> {}]

\* The body of "for (const t of teams)" on the record agg of t's key.
AddSeason(agg, t, y) ==
  LET avgZ == OrElse(t.avgTotalZ, 0)
      sumZ == OrElse(t.sumTotalZ, 0)
  IN [agg EXCEPT
        !.seasons = @ + 1,
        !.ranks = IF t.rank # Absent THEN Append(@, t.rank) ELSE @,
        !.totalAvgZ = @ + avgZ,
        !.totalSumZ = @ + sumZ,
        !.bestAvgZ = IF ~@.set \/ avgZ > @.value THEN Best(y, avgZ) ELSE @,
        !.worstAvgZ = IF ~@.set \/ avgZ < @.value THEN Best(y, avgZ) ELSE @,
        !.bestTotalZ = IF ~@.set \/ sumZ > @.value THEN Best(y, sumZ) ELSE @,
        !.worstTotalZ = IF ~@.set \/ sumZ < @.value THEN Best(y, sumZ) ELSE @,
        !.frs = @ \cup {t.fr}]

\* teamHistoryAgg after one row; the object keeps its keys in insertion order.
Accumulate(aggs, t, y) ==
  LET key == AggKey(t)
  IN IF \E i \in 1..Len(aggs) : aggs[i].teamName = key
     THEN [i \in 1..Len(aggs) |->
             IF aggs[i].teamName = key THEN AddSeason(aggs[i], t, y) ELSE aggs[i]]
     ELSE Append(aggs, AddSeason(NewAgg(key), t, y))

RECURSIVE AccumulateAll(_, _, _)
AccumulateAll(aggs, teams, y) ==
  IF teams = <<>> THEN aggs
  ELSE AccumulateAll(Accumulate(aggs, Head(teams), y), Tail(teams), y)

SeqMin(s) == CHOOSE x \in SeqToSet(s) : \A z \in SeqToSet(s) : x <= z
SeqMax(s) == CHOOSE x \in SeqToSet(s) : \A z \in SeqToSet(s) : x >= z

\* "finalize multi-season teams": one record per key, sorted by
\* avgZAcrossSeasons, best first.
MultiTeams(aggs) ==
  LaSort(
    [i \in 1..Len(aggs) |->
       [teamName |-> aggs[i].teamName,
        seasons |-> aggs[i].seasons,
        avgRank |-> IF Len(aggs[i].ranks) > 0
                    THEN <<SumSeq(aggs[i].ranks), Len(aggs[i].ranks)>>
                    ELSE <<Absent, 1>>,
        bestFinish |-> IF Len(aggs[i].ranks) > 0 THEN SeqMin(aggs[i].ranks) ELSE Absent,
        worstFinish |-> IF Len(aggs[i].ranks) > 0 THEN SeqMax(aggs[i].ranks) ELSE Absent,
        avgZAcrossSeasons |-> IF aggs[i].seasons > 0
                              THEN <<aggs[i].totalAvgZ, aggs[i].seasons>>
                              ELSE <<0, 1>>,
        bestAvgZ |-> aggs[i].bestAvgZ,
        worstAvgZ |-> aggs[i].worstAvgZ,
        bestTotalZ |-> aggs[i].bestTotalZ,
        worstTotalZ |-> aggs[i].worstTotalZ,
        frs |-> aggs[i].frs]],
    "multiTeams")

NoLoad == [active |-> FALSE, years |-> <<>>, i |-> 0, awards |-> <<>>, agg |-> <<>>]

LaDeps(tab, awardsByYear, loadingAwards, years) ==
  <<tab, Len(awardsByYear), loadingAwards, years>>

LaPending ==
  ~la_mounted
  \/ LaDeps(la_tab, la_awardsByYear, la_loadingAwards, la_years) # la_deps

LaInit ==
  /\ la_tab = "overview"
  /\ la_years = <<>>
  /\ la_awardsByYear = <<>>
  /\ la_multiSeasonTeams = <<>>
  /\ la_loadingAwards = FALSE
  /\ la_error = Null
  /\ la_load = NoLoad
  /\ la_mounted = FALSE
  /\ la_deps = LaDeps(la_tab, la_awardsByYear, la_loadingAwards, la_years)

\* One commit that renders (tab, years): the effect "load awards +
\* multi-season stats once when needed" runs if its dependencies changed and
\* calls loadAwardsAcrossYears, which returns at once when meta.years is
\* empty and otherwise sets loadingAwards and awaits the first year.
LaCommitOf(tab, years) ==
  LET deps == LaDeps(tab, la_awardsByYear, la_loadingAwards, years)
      fired == ~la_mounted \/ deps # la_deps
      call == fired /\ tab = "history" /\ Len(la_awardsByYear) = 0
              /\ ~la_loadingAwards
      start == call /\ Len(years) > 0
  IN
  /\ la_tab' = tab
  /\ la_years' = years
  /\ la_mounted' = TRUE
  /\ la_deps' = deps
  /\ la_loadingAwards' = IF start THEN TRUE ELSE la_loadingAwards
  /\ la_error' = IF start THEN Null ELSE la_error
  /\ la_load' = IF start
                THEN [active |-> TRUE, years |-> years, i |-> 1,
                      awards |-> <<>>, agg |-> <<>>]
                ELSE la_load
  /\ UNCHANGED <<la_awardsByYear, la_multiSeasonTeams>>
  /\ LaFrame

\* The first render, and the render after a state update of the load.
LaCommit ==
  /\ LaPending
  /\ LaCommitOf(la_tab, la_years)

\* A click on a tab button.
LaSetTab ==
  /\ la_mounted
  /\ \E t \in LaTabs \ {la_tab} : LaCommitOf(t, la_years)

\* setMeta with the years of a meta response.
LaMetaLoaded ==
  /\ la_mounted
  /\ la_years = <<>>
  /\ LaCommitOf(la_tab, LaYearList)

\* awards.sort((a, b) => a.year - b.year): entries are pushed in the order of
\* meta.years.
LaSortAwards(awards) ==
  StableSort(awards, {p \in SeqToSet(awards) \X SeqToSet(awards) :
                        p[1].year <= p[2].year})

\* The continuation of loadAwardsAcrossYears after the fetch of year
\* years[i]: teams is the response's team list; failed is a rejected fetch,
\* a response that is not ok, or a body that does not parse.  After the last
\* year the results are stored.
LaYearDone(failed, teams) ==
  LET ld == la_load
      y == ld.years[ld.i]
      skip == failed \/ Len(teams) = 0
      awards == IF skip THEN ld.awards ELSE Append(ld.awards, AwardOf(y, teams))
      agg == IF skip THEN ld.agg ELSE AccumulateAll(ld.agg, teams, y)
  IN
  /\ ld.active
  /\ IF ld.i < Len(ld.years)
     THEN /\ la_load' = [ld EXCEPT !.i = @ + 1, !.awards = awards, !.agg = agg]
          /\ UNCHANGED <<la_awardsByYear, la_multiSeasonTeams, la_loadingAwards>>
     ELSE /\ la_load' = NoLoad
          /\ la_awardsByYear' = LaSortAwards(awards)
          /\ la_multiSeasonTeams' = MultiTeams(agg)
          /\ la_loadingAwards' = FALSE
  /\ UNCHANGED <<la_tab, la_years, la_error, la_mounted, la_deps>>
  /\ LaFrame

\* The season-power request of the current year fails.
LaSeasonPowerFailed == LaYearDone(TRUE, <<>>)

\* The season-power request of the current year succeeds.
LaSeasonPowerLoaded == \E teams \in SeasonResponses : LaYearDone(FALSE, teams)

LaNext ==
  \/ LaCommit
  \/ LaSetTab
  \/ LaMetaLoaded
  \/ LaSeasonPowerFailed
  \/ LaSeasonPowerLoaded

\* C4: every multiSeasonTeams record holds rows of one franchise only, and
\* no franchise has rows in two records.
C4_OneRecordPerFranchise ==
  /\ \A i \in 1..Len(la_multiSeasonTeams) :
       Cardinality(la_multiSeasonTeams[i].frs) <= 1
  /\ \A i, j \in 1..Len(la_multiSeasonTeams) :
       i # j => la_multiSeasonTeams[i].frs \cap la_multiSeasonTeams[j].frs = {}

\* The History tab is open with years to load and no load running.  A load
\* starts in the commit that opens the tab or stores the years, so in such a
\* state a load has already completed.
LaLoadCompleted ==
  /\ la_mounted
  /\ la_tab = "history"
  /\ Len(la_years) > 0
  /\ ~la_load.active

\* C21: while the History tab stays open and meta.years stays the same
\* non-empty list, no load starts after a load has completed, whatever the
\* per-year requests returned.
C21_AwardsLoadRunsOnce ==
  [][(LaLoadCompleted /\ la_tab' = la_tab /\ la_years' = la_years)
       => ~la_load'.active]_vars


----------------------------------------------------------------------------
(***************************************************************************)
(* scripts/pull_latest.sh                                                  *)
(*                                                                         *)
(* The shell runs one command at a time and waits for it.  A command is    *)
(* started by one action and exits by another, with a status the model     *)
(* chooses.  Under "set -e" a status other than 0 ends the script.         *)
(***************************************************************************)

PlYears == {2024, 2025}
\* SEASON in the environment: unset, empty, or a year.
NoSeason(kind) == [kind |-> kind, year |-> 0]
Season(y) == [kind |-> "year", year |-> y]
PlEnvSeasons == {NoSeason("unset"), NoSeason("empty")} \cup {Season(y) : y \in PlYears}
PlStatuses == {0, 1}
Running == -1
NoProc == [cmd |-> "none", year |-> 0, force |-> FALSE]

PlInit ==
  /\ pl_pc = "cd"
  /\ pl_envSeason \in PlEnvSeasons
  /\ pl_maxYear \in PlYears
  /\ pl_venv \in BOOLEAN
  \* before line 291 SEASON is what the environment gave
  /\ pl_season = pl_envSeason
  /\ pl_running = NoProc
  /\ pl_runs = <<>>
  /\ pl_exit = Running

\* A shell without errexit.
ErrExitOff(status) == FALSE

\* set -e: a simple command with a status other than 0 ends the script.
ErrExit(status) == status # 0

\* The shell after a builtin or an expansion of status st at line pc.
PlAfter(st, next) ==
  IF ErrExit(st)
  THEN pl_pc' = "exited" /\ pl_exit' = st
  ELSE pl_pc' = next /\ pl_exit' = (IF next = "exited" THEN st ELSE Running)

\* cd "$(dirname "$0")/.."
PlCd ==
  /\ pl_pc = "cd" /\ pl_exit = Running
  /\ \E st \in PlStatuses : PlAfter(st, "venv")
  /\ UNCHANGED <<pl_envSeason, pl_maxYear, pl_venv, pl_season, pl_running, pl_runs>>
  /\ PlFrame

\* if [[ -f ".venv/bin/activate" ]]; then source .venv/bin/activate; fi
PlVenv ==
  /\ pl_pc = "venv" /\ pl_exit = Running
  /\ IF pl_venv
     THEN \E st \in PlStatuses : PlAfter(st, "season")
     ELSE PlAfter(0, "season")
  /\ UNCHANGED <<pl_envSeason, pl_maxYear, pl_venv, pl_season, pl_running, pl_runs>>
  /\ PlFrame

\* SEASON="${SEASON:-$(... print(int(MAX_YEAR)))}": the command substitution
\* runs only when SEASON is unset or empty, and its status is the status of
\* the assignment.
PlResolveSeason ==
  /\ pl_pc = "season" /\ pl_exit = Running
  /\ IF pl_envSeason.kind = "year"
     THEN pl_season' = pl_envSeason /\ PlAfter(0, "pull")
     ELSE \E st \in PlStatuses :
            /\ pl_season' = IF st = 0 THEN Season(pl_maxYear) ELSE NoSeason("empty")
            /\ PlAfter(st, "pull")
  /\ UNCHANGED <<pl_envSeason, pl_maxYear, pl_venv, pl_running, pl_runs>>
  /\ PlFrame

\* The command of each of the three steps.
PlCommand(pc) ==
  CASE pc = "pull" -> [cmd |-> "pull_week --latest", year |-> 0, force |-> FALSE]
    [] pc = "rebuildOpp" ->
         [cmd |-> "rebuild_opponent_matrix_agg_year", year |-> pl_season.year,
          force |-> TRUE]
    [] pc = "rebuildHist" ->
         [cmd |-> "rebuild_team_history_agg_year", year |-> pl_season.year,
          force |-> TRUE]

PlNextLine(pc) ==
  CASE pc = "pull" -> "rebuildOpp"
    [] pc = "rebuildOpp" -> "rebuildHist"
    [] pc = "rebuildHist" -> "exited"

\* The shell forks the command of line pc.
PlStart(pc) ==
  /\ pl_pc = pc /\ pl_exit = Running /\ pl_running = NoProc
  /\ pl_running' = PlCommand(pc)
  /\ UNCHANGED <<pl_pc, pl_envSeason, pl_maxYear, pl_venv, pl_season, pl_runs,
                 pl_exit>>
  /\ PlFrame

\* The command of line pc exits and the shell goes on, or exits.
PlWait(pc) ==
  /\ pl_pc = pc /\ pl_exit = Running /\ pl_running # NoProc
  /\ \E st \in PlStatuses :
       /\ pl_runs' = Append(pl_runs, [proc |-> pl_running, status |-> st])
       /\ PlAfter(st, PlNextLine(pc))
  /\ pl_running' = NoProc
  /\ UNCHANGED <<pl_envSeason, pl_maxYear, pl_venv, pl_season>>
  /\ PlFrame

PlNext ==
  \/ PlCd
  \/ PlVenv
  \/ PlResolveSeason
  \* [1/3] python scripts/pull_week.py --latest
  \/ PlStart("pull")
  \/ PlWait("pull")
  \* [2/3] python scripts/rebuild_opponent_matrix_agg_year.py --year "${SEASON}" --force
  \/ PlStart("rebuildOpp")
  \/ PlWait("rebuildOpp")
  \* [3/3] python scripts/rebuild_team_history_agg_year.py --year "${SEASON}" --force
  \/ PlStart("rebuildHist")
  \/ PlWait("rebuildHist")

\* The commands that have been started, in order.
PlStarted ==
  [i \in 1..Len(pl_runs) |-> pl_runs[i].proc]
  \o (IF pl_running # NoProc THEN <<pl_running>> ELSE <<>>)

PlOrder ==
  <<"pull_week --latest", "rebuild_opponent_matrix_agg_year",
    "rebuild_team_history_agg_year">>

\* C9: the commands started so far are the first steps of the order pull,
\* opponent-matrix rebuild, team-history rebuild; a step has started only if
\* the step before it has exited with status 0; both rebuilds carry --force
\* and the one season the script resolved.
C9_StepsInOrderAfterSuccess ==
  /\ Len(PlStarted) <= Len(PlOrder)
  /\ \A i \in 1..Len(PlStarted) :
       /\ PlStarted[i].cmd = PlOrder[i]
       /\ i > 1 => /\ i - 1 <= Len(pl_runs)
                   /\ pl_runs[i - 1].status = 0
                   /\ PlStarted[i].force
                   /\ PlStarted[i].year = pl_season.year
                   /\ pl_season.kind = "year"
  /\ pl_exit = 0 => Len(pl_runs) = Len(PlOrder)

\* C9 witness: the pull succeeded, the opponent-matrix rebuild failed, and
\* the script has ended without a team-history rebuild.
C9_Witness ==
  /\ Len(pl_runs) = 2 /\ pl_runs[1].status = 0 /\ pl_runs[2].status # 0
  /\ pl_exit # Running /\ pl_running = NoProc

----------------------------------------------------------------------------
(***************************************************************************)
(* Aggregate cache: rebuild and read of one materialized aggregate         *)
(*                                                                         *)
(* The backend that holds the aggregate tables is not part of the sources  *)
(* at hand; this section follows the discipline the specification gives:   *)
(* one lock per cache key, a rebuild computes the whole aggregate into an  *)
(* object of its own and then replaces the cached one in a single step.    *)
(* An aggregate is a fixed number of rows; a row is named by the rebuild    *)
(* that wrote it, so an aggregate is complete when all its rows carry the  *)
(* same name.                                                              *)
(***************************************************************************)

\* Rows of one aggregate.
AggRows == 2
\* Rebuilds that may start in one behaviour.
MaxRebuilds == 2

\* A year key and a year-range + team + owner-era key.
ChKeys == {"2025", "2024-2025/T1/era"}
ChWriters == {"w1", "w2"}
ChReaders == {"r1", "r2"}
NoWriter == "none"

\* The aggregate each key starts with.
InitialObject == [k \in ChKeys |-> IF k = "2025" THEN 1 ELSE 2]
ObjectIds == 1..(Cardinality(ChKeys) + MaxRebuilds)
\* A row not yet written is 0.
EmptyObject == [i \in 1..AggRows |-> 0]
CompleteObject(v) == [i \in 1..AggRows |-> v]
Complete(rows) == \E v \in ObjectIds : rows = CompleteObject(v)

\* before: the aggregate the cache served for the key when the rebuild began.
NoAggregate == [obj |-> 0, rows |-> <<>>]
IdleWriter ==
  [pc |-> "idle", key |-> "", target |-> 0, ver |-> 0, i |-> 0,
   before |-> NoAggregate]
IdleReader == [pc |-> "idle", key |-> "", obj |-> 0, rows |-> <<>>]

ChInit ==
  /\ ch_cache = InitialObject
  /\ ch_objects = [o \in ObjectIds |->
                     IF \E k \in ChKeys : InitialObject[k] = o
                     THEN CompleteObject(o) ELSE EmptyObject]
  /\ ch_lock = [k \in ChKeys |-> NoWriter]
  /\ ch_writer = [w \in ChWriters |-> IdleWriter]
  /\ ch_reader = [r \in ChReaders |-> IdleReader]
  /\ ch_nextId = Cardinality(ChKeys) + 1
  /\ ch_published = [k \in ChKeys |-> {InitialObject[k]}]

\* A rebuild that writes into the aggregate the cache is serving.
RebuildTargetInPlace(k, fresh) == ch_cache[k]

\* The object a rebuild of key k computes into: one of its own.
RebuildTarget(k, fresh) == fresh

\* rebuild(kind, key, force) begins: it takes the lock of the key.
ChRebuildBegin(w, k) ==
  /\ ch_writer[w].pc \in {"idle", "failed"}
  /\ ch_lock[k] = NoWriter
  /\ ch_nextId \in ObjectIds
  /\ ch_lock' = [ch_lock EXCEPT ![k] = w]
  /\ ch_writer' = [ch_writer EXCEPT ![w] =
                     [pc |-> "computing", key |-> k,
                      target |-> RebuildTarget(k, ch_nextId),
                      ver |-> ch_nextId, i |-> 0,
                      before |-> [obj |-> ch_cache[k],
                                  rows |-> ch_objects[ch_cache[k]]]]]
  /\ ch_nextId' = ch_nextId + 1
  /\ UNCHANGED <<ch_cache, ch_objects, ch_reader, ch_published>>
  /\ ChFrame

\* The rebuild computes and stores the next row of its aggregate.
ChRebuildRow(w) ==
  LET s == ch_writer[w]
  IN /\ s.pc = "computing"
     /\ s.i < AggRows
     /\ ch_objects' = [ch_objects EXCEPT ![s.target][s.i + 1] = s.ver]
     /\ ch_writer' = [ch_writer EXCEPT ![w].i = s.i + 1]
     /\ UNCHANGED <<ch_cache, ch_lock, ch_reader, ch_nextId, ch_published>>
     /\ ChFrame

\* The rebuild replaces the cached aggregate and releases the lock.
ChRebuildSwap(w) ==
  LET s == ch_writer[w]
  IN /\ s.pc = "computing"
     /\ s.i = AggRows
     /\ ch_cache' = [ch_cache EXCEPT ![s.key] = s.target]
     /\ ch_published' = [ch_published EXCEPT ![s.key] = @ \cup {s.ver}]
     /\ ch_lock' = [ch_lock EXCEPT ![s.key] = NoWriter]
     /\ ch_writer' = [ch_writer EXCEPT ![w] = IdleWriter]
     /\ UNCHANGED <<ch_objects, ch_reader, ch_nextId>>
     /\ ChFrame

\* A failing rebuild that leaves what it has computed so far in the cache.
CacheAfterFailurePartial(s) == s.target

\* The aggregate the cache serves for the key of a rebuild that failed: the
\* one it served before.
CacheAfterFailure(s) == ch_cache[s.key]

\* The rebuild fails (source data absent) at any point before the swap: the
\* lock is released and the rebuild ends as failed.
ChRebuildFail(w) ==
  LET s == ch_writer[w]
  IN /\ s.pc = "computing"
     /\ ch_cache' = [ch_cache EXCEPT ![s.key] = CacheAfterFailure(s)]
     /\ ch_lock' = [ch_lock EXCEPT ![s.key] = NoWriter]
     /\ ch_writer' = [ch_writer EXCEPT ![w].pc = "failed"]
     /\ UNCHANGED <<ch_objects, ch_reader, ch_nextId, ch_published>>
     /\ ChFrame

\* A reader looks the key up: it holds the aggregate the cache serves now.
ChReadBegin(r, k) ==
  /\ ch_reader[r].pc = "idle"
  /\ ch_reader' = [ch_reader EXCEPT ![r] =
                     [pc |-> "reading", key |-> k, obj |-> ch_cache[k],
                      rows |-> <<>>]]
  /\ UNCHANGED <<ch_cache, ch_objects, ch_lock, ch_writer, ch_nextId,
                 ch_published>>
  /\ ChFrame

\* The reader reads the next row of the aggregate it holds.
ChReadRow(r) ==
  LET s == ch_reader[r]
  IN /\ s.pc = "reading"
     /\ Len(s.rows) < AggRows
     /\ ch_reader' = [ch_reader EXCEPT ![r].rows =
                        Append(@, ch_objects[s.obj][Len(s.rows) + 1])]
     /\ UNCHANGED <<ch_cache, ch_objects, ch_lock, ch_writer, ch_nextId,
                    ch_published>>
     /\ ChFrame

\* The reader has the whole aggregate and returns it.
ChReadEnd(r) ==
  LET s == ch_reader[r]
  IN /\ s.pc = "reading"
     /\ Len(s.rows) = AggRows
     /\ ch_reader' = [ch_reader EXCEPT ![r] = IdleReader]
     /\ UNCHANGED <<ch_cache, ch_objects, ch_lock, ch_writer, ch_nextId,
                    ch_published>>
     /\ ChFrame

ChNext ==
  \/ \E w \in ChWriters, k \in ChKeys : ChRebuildBegin(w, k)
  \/ \E w \in ChWriters : ChRebuildRow(w)
  \/ \E w \in ChWriters : ChRebuildSwap(w)
  \/ \E w \in ChWriters : ChRebuildFail(w)
  \/ \E r \in ChReaders, k \in ChKeys : ChReadBegin(r, k)
  \/ \E r \in ChReaders : ChReadRow(r)
  \/ \E r \in ChReaders : ChReadEnd(r)

\* The rebuilds of key k that are under way.
Rebuilding(k) == {w \in ChWriters : ch_writer[w].pc = "computing" /\ ch_writer[w].key = k}

\* C10: at most one rebuild of a key is under way at a time, and the rows a
\* reader of a key has read are rows of one complete aggregate that the
\* cache has served for the key (the previous one, or the new one).
C10_ExclusiveRebuildCompleteReads ==
  /\ \A k \in ChKeys : Cardinality(Rebuilding(k)) <= 1
  /\ \A k \in ChKeys : Complete(ch_objects[ch_cache[k]])
  /\ \A r \in ChReaders :
       ch_reader[r].pc = "reading" =>
         \E v \in ch_published[ch_reader[r].key] :
           \A i \in 1..Len(ch_reader[r].rows) : ch_reader[r].rows[i] = v

\* C10 witness: a reader is part-way through the previous aggregate of a key
\* whose rebuild has swapped the new aggregate in, while a second rebuild of
\* the same key is under way.
C10_Witness ==
  \E r \in ChReaders, k \in ChKeys :
    /\ ch_reader[r].pc = "reading" /\ ch_reader[r].key = k
    /\ Len(ch_reader[r].rows) = 1
    /\ ch_reader[r].obj # ch_cache[k]
    /\ Rebuilding(k) # {}
    /\ \E w \in Rebuilding(k) : ch_writer[w].i = 1

\* C11: a step in which a rebuild fails leaves the cache serving, for the
\* key of the rebuild, the aggregate it served when the rebuild began, with
\* the rows it had then; so every reader of the key, holding it or looking
\* it up next, is served that aggregate.
C11_FailedRebuildKeepsAggregate ==
  [][\A w \in ChWriters :
       (ch_writer[w].pc = "computing" /\ ch_writer'[w].pc = "failed") =>
         LET k == ch_writer[w].key
             b == ch_writer[w].before
         IN /\ ch_cache'[k] = b.obj
            /\ ch_objects'[ch_cache'[k]] = b.rows
            /\ Complete(ch_objects'[ch_cache'[k]])
            /\ \A r \in ChReaders :
                 (ch_reader[r].pc = "reading" /\ ch_reader[r].obj = b.obj) =>
                   ch_objects'[ch_reader'[r].obj] = b.rows]_vars

\* C11 witness: a rebuild has failed after computing a row, the cache still
\* serves the aggregate it served before, and a reader is part-way through
\* that aggregate.
C11_Witness ==
  \E w \in ChWriters, r \in ChReaders :
    /\ ch_writer[w].pc = "failed" /\ ch_writer[w].i = 1
    /\ ch_cache[ch_writer[w].key] = ch_writer[w].before.obj
    /\ ch_reader[r].pc = "reading" /\ ch_reader[r].key = ch_writer[w].key
    /\ ch_reader[r].obj = ch_writer[w].before.obj
    /\ Len(ch_reader[r].rows) = 1

----------------------------------------------------------------------------
(***************************************************************************)
(* OpponentAnalysisTab: behaviours and properties                          *)
(***************************************************************************)

\* The fetch effect stores a payload; two families of payloads.
OmRecordDataLoaded == OmSetData(RecordRows)
OmShapeDataLoaded == OmSetData(ShapeRows)

OmRecordNext ==
  \/ OmRecordDataLoaded
  \/ OmSetMetricMode

OmMatrixNext ==
  \/ OmShapeDataLoaded
  \/ OmSetMetricMode

\* C5: every head-to-head record of the matrix has
\* matchups = wins + losses + ties.
C5_MatchupsIsSumOfCounts ==
  \A n \in DOMAIN om_matrix.recordByOpponent :
    LET rec == om_matrix.recordByOpponent[n]
    IN rec.matchups = rec.wins + rec.losses + rec.ties

\* C6: with at least one payload row and one category, the matrix has one
\* column per payload row, in payload order and named by the row's
\* opponentName; one row per category in catWinPct and zDiff and the single
\* row "Record" in recordWinPct; as many cells in every row as opponents;
\* and the cell 0.5 in catWinPct wherever the row has no entry for the
\* category.
C6_MatrixShape ==
  (om_data.present /\ Len(om_data.rows) >= 1 /\ Len(om_categories) >= 1) =>
    LET rows == om_data.rows
        mx == om_matrix
    IN /\ mx.opponents = [i \in 1..Len(rows) |-> rows[i].opponentName]
       /\ om_metricMode \in {"catWinPct", "zDiff"} =>
            mx.rowLabels = om_categories /\ Len(mx.values) = Len(om_categories)
       /\ om_metricMode = "recordWinPct" =>
            mx.rowLabels = <<"Record">> /\ Len(mx.values) = 1
       /\ \A c \in 1..Len(mx.values) : Len(mx.values[c]) = Len(mx.opponents)
       /\ om_metricMode = "catWinPct" =>
            \A c \in 1..Len(om_categories), i \in 1..Len(rows) :
              ~CatStatsOf(rows[i], om_categories[c]).present =>
                mx.values[c][i] = <<1, 2>>

\* C6 witness: two opponents, two categories, mode catWinPct; the first
\* opponent has a PTS entry with a win percentage and neither has a REB
\* entry.
C6_Witness ==
  /\ om_data.present /\ Len(om_data.rows) = 2
  /\ om_categories = <<"PTS", "REB">>
  /\ om_metricMode = "catWinPct"
  /\ om_data.rows[1].categories["PTS"].winPct = 100
  /\ om_matrix.opponents = <<"B", "A">>
  /\ om_matrix.values = << <<(<<100, 100>>), (<<1, 2>>)>>,
                           <<(<<1, 2>>), (<<1, 2>>)>> >>

----------------------------------------------------------------------------
(***************************************************************************)
(* DashboardTab: behaviours and properties                                 *)
(***************************************************************************)

DbNext ==
  \/ DbHandleSort
  \/ DbSetSortField
  \/ DbSetSortDirection
  \/ DbSetView
  \/ DbWeekPowerProp
  \/ DbSeasonPowerProp

\* C7: in the weekly table, for a numeric sort field, the rows are ordered
\* best first when sortDirection is "DESC" (rank ascending, z descending)
\* and worst first when it is "ASC"; rows without a number in the field are
\* left out of the comparison.
C7_DescIsBestFirst ==
  \A i, j \in 1..Len(db_sortedWeekTeams) :
    i < j =>
      LET a == db_sortedWeekTeams[i]
          b == db_sortedWeekTeams[j]
          desc == db_sortDirection = "DESC"
      IN /\ (db_sortField = "RANK" /\ a.rank # Absent /\ b.rank # Absent) =>
              IF desc THEN a.rank <= b.rank ELSE a.rank >= b.rank
         /\ (db_sortField = "TOTAL_Z" /\ a.totalZ # Absent /\ b.totalZ # Absent) =>
              IF desc THEN a.totalZ >= b.totalZ ELSE a.totalZ <= b.totalZ
         /\ (db_sortField \in SeqToSet(DbCats) /\ a.catZ # Absent /\ b.catZ # Absent) =>
              IF desc THEN a.catZ >= b.catZ ELSE a.catZ <= b.catZ

----------------------------------------------------------------------------
(***************************************************************************)
(* OpponentAnalysisTab: year range, year selects, opponent-matrix fetch     *)
(***************************************************************************)

\* Largest number of opponent-matrix requests explored.
MaxOppReq == 2

\* The hard-coded first year of the fallback range and default minimum.
DefaultMin == 2019
\* new Date().getFullYear()
ThisYear == DefaultMin + 1
\* Values of the prop availableYears (meta.years before and after the meta
\* has loaded), in any order.
OfYearLists == {<<>>, <<2018>>, <<2019>>, <<2020, 2019>>}
\* Values of the prop year.
OfYearProps == {0, 2018}
\* Values of the prop selectedTeamId; 0 is null.
OfTeamIds == {0, 1, 2}

\* const yearRange = useMemo(...)
YearRange(availableYears, year) ==
  IF Len(availableYears) > 0
  THEN StableSort(availableYears,
                  {p \in SeqToSet(availableYears) \X SeqToSet(availableYears) :
                     p[1] - p[2] <= 0})
  ELSE LET latest == IF year # 0 THEN year ELSE ThisYear
           first == DefaultMin
       IN IF latest < first THEN <<>>
          ELSE [i \in 1..(latest - first + 1) |-> first + i - 1]

\* The updater functions of the year clamp effect.
ClampYear(prev, whenNull, defaultMin, defaultMax) ==
  IF prev = 0 THEN whenNull
  ELSE IF prev < defaultMin THEN defaultMin
  ELSE IF prev > defaultMax THEN defaultMax
  ELSE prev

\* The state of the component as one record.
OfState ==
  [availableYears |-> of_availableYears, year |-> of_year,
   selectedTeamId |-> of_selectedTeamId, minYear |-> of_minYear,
   maxYear |-> of_maxYear, ownerEraOnly |-> of_ownerEraOnly,
   data |-> of_data, loading |-> of_loading, error |-> of_error,
   inflight |-> of_inflight, issued |-> of_issued]

\* useEffect(() => { ... setMinYear(...); setMaxYear(...) }, [yearRange])
ClampEffect(s) ==
  LET yearRange == YearRange(s.availableYears, s.year)
  IN IF Len(yearRange) = 0 THEN s
     ELSE LET defaultMin == DefaultMin
              defaultMax == yearRange[Len(yearRange)]
          IN [s EXCEPT
                !.minYear = ClampYear(s.minYear, defaultMin, defaultMin, defaultMax),
                !.maxYear = ClampYear(s.maxYear, defaultMax, defaultMin, defaultMax)]

MinYearOptions(s) ==
  LET yearRange == YearRange(s.availableYears, s.year)
  IN IF s.maxYear = 0 THEN SeqToSet(yearRange)
     ELSE {y \in SeqToSet(yearRange) : y <= s.maxYear}
MaxYearOptions(s) ==
  LET yearRange == YearRange(s.availableYears, s.year)
  IN IF s.minYear = 0 THEN SeqToSet(yearRange)
     ELSE {y \in SeqToSet(yearRange) : y >= s.minYear}

NoMatrix ==
  [present |-> FALSE, id |-> 0, teamId |-> 0, startYear |-> 0, endYear |-> 0,
   currentOwnerEraOnly |-> FALSE]
\* What the backend answers to a request: the matrix of its parameters.
MatrixFor(r) ==
  [present |-> TRUE, id |-> r.id, teamId |-> r.teamId,
   startYear |-> r.startYear, endYear |-> r.endYear,
   currentOwnerEraOnly |-> r.currentOwnerEraOnly]

\* The dependencies of the fetch effect.
OfDeps(s) == <<s.selectedTeamId, s.minYear, s.maxYear, s.ownerEraOnly>>

\* One run of the fetch effect: the cleanup of the previous run, then the
\* body up to the await.
FetchEffect(s) ==
  LET cleaned == {[r EXCEPT !.cancelled = TRUE] : r \in s.inflight}
  IN IF s.selectedTeamId = 0 \/ s.minYear = 0 \/ s.maxYear = 0
     THEN [s EXCEPT !.data = NoMatrix, !.inflight = cleaned]
     ELSE [s EXCEPT
             !.loading = TRUE,
             !.error = "",
             !.issued = s.issued + 1,
             !.inflight = cleaned \cup
                {[id |-> s.issued + 1, startYear |-> s.minYear,
                  endYear |-> s.maxYear, teamId |-> s.selectedTeamId,
                  currentOwnerEraOnly |-> s.ownerEraOnly,
                  cancelled |-> FALSE]}]

\* The commits that follow a change from state old to state s: the render of
\* s runs the effects whose dependencies changed; the updates queued by the
\* clamp effect are rendered next, and the fetch effect runs again if they
\* changed its dependencies.
OfCommitOf(old, s, first) ==
  LET rangeChanged == first \/ s.availableYears # old.availableYears
                            \/ s.year # old.year
      s1 == IF first \/ OfDeps(s) # OfDeps(old) THEN FetchEffect(s) ELSE s
      s2 == IF rangeChanged THEN ClampEffect(s1) ELSE s1
  IN IF OfDeps(s2) # OfDeps(s1) THEN FetchEffect(s2) ELSE s2

OfApply(s) ==
  /\ s.issued <= MaxOppReq
  /\ of_availableYears' = s.availableYears
  /\ of_year' = s.year
  /\ of_selectedTeamId' = s.selectedTeamId
  /\ of_minYear' = s.minYear
  /\ of_maxYear' = s.maxYear
  /\ of_ownerEraOnly' = s.ownerEraOnly
  /\ of_data' = s.data
  /\ of_loading' = s.loading
  /\ of_error' = s.error
  /\ of_inflight' = s.inflight
  /\ of_issued' = s.issued
  /\ of_dropped' = FALSE

OfInit ==
  /\ of_availableYears \in OfYearLists
  /\ of_year \in OfYearProps
  /\ of_selectedTeamId \in OfTeamIds
  /\ of_minYear = 0
  /\ of_maxYear = 0
  /\ of_ownerEraOnly = TRUE
  /\ of_data = NoMatrix
  /\ of_loading = FALSE
  /\ of_error = ""
  /\ of_inflight = {}
  /\ of_issued = 0
  /\ of_mounted = FALSE
  /\ of_dropped = FALSE

\* The first commit.
OfMount ==
  /\ ~of_mounted
  /\ of_mounted' = TRUE
  /\ OfApply(OfCommitOf(OfState, OfState, TRUE))
  /\ OfFrame

\* The parent renders the tab with another list of years (meta loaded).
OfSetAvailableYears ==
  /\ of_mounted
  /\ of_availableYears = <<>>
  /\ \E list \in OfYearLists \ {of_availableYears} :
       OfApply(OfCommitOf(OfState, [OfState EXCEPT !.availableYears = list], FALSE))
  /\ UNCHANGED of_mounted
  /\ OfFrame

\* The Team select, or the effect that picks the first team: onChangeTeam.
OfChangeTeam ==
  /\ of_mounted
  /\ \E val \in OfTeamIds \ {of_selectedTeamId} :
       OfApply(OfCommitOf(OfState, [OfState EXCEPT !.selectedTeamId = val], FALSE))
  /\ UNCHANGED of_mounted
  /\ OfFrame

\* onChange of the first Years select.
OfSelectMinYear ==
  /\ of_mounted
  /\ \E val \in MinYearOptions(OfState) :
       LET s == [OfState EXCEPT
                   !.minYear = val,
                   !.maxYear = IF of_maxYear # 0 /\ val > of_maxYear
                               THEN val ELSE of_maxYear]
       IN OfApply(OfCommitOf(OfState, s, FALSE))
  /\ UNCHANGED of_mounted
  /\ OfFrame

\* onChange of the second Years select.
OfSelectMaxYear ==
  /\ of_mounted
  /\ \E val \in MaxYearOptions(OfState) :
       LET s == [OfState EXCEPT
                   !.maxYear = val,
                   !.minYear = IF of_minYear # 0 /\ val < of_minYear
                               THEN val ELSE of_minYear]
       IN OfApply(OfCommitOf(OfState, s, FALSE))
  /\ UNCHANGED of_mounted
  /\ OfFrame

\* The "current owner era only" checkbox.
OfSetOwnerEraOnly ==
  /\ of_mounted
  /\ OfApply(OfCommitOf(OfState,
                        [OfState EXCEPT !.ownerEraOnly = ~of_ownerEraOnly], FALSE))
  /\ UNCHANGED of_mounted
  /\ OfFrame

\* if (cancelled) return;   with the guard removed
OfCancelledNever(r) == FALSE
\* if (cancelled) return;
OfCancelled(r) == r.cancelled

\* getOpponentMatrixMulti resolves: the rest of the try block and finally.
OfResolve ==
  /\ \E r \in of_inflight :
       /\ of_inflight' = of_inflight \ {r}
       /\ of_dropped' = r.cancelled
       /\ IF OfCancelled(r)
          THEN UNCHANGED <<of_data, of_loading>>
          ELSE /\ of_data' = MatrixFor(r)
               /\ of_loading' = FALSE
  /\ UNCHANGED <<of_availableYears, of_year, of_selectedTeamId, of_minYear,
                 of_maxYear, of_ownerEraOnly, of_error, of_issued, of_mounted>>
  /\ OfFrame

\* getOpponentMatrixMulti rejects: the catch block and finally.
OfReject ==
  /\ \E r \in of_inflight :
       /\ of_inflight' = of_inflight \ {r}
       /\ of_dropped' = r.cancelled
       /\ IF OfCancelled(r)
          THEN UNCHANGED <<of_data, of_loading, of_error>>
          ELSE /\ of_error' = "Failed to load opponent analysis"
               /\ of_data' = NoMatrix
               /\ of_loading' = FALSE
  /\ UNCHANGED <<of_availableYears, of_year, of_selectedTeamId, of_minYear,
                 of_maxYear, of_ownerEraOnly, of_issued, of_mounted>>
  /\ OfFrame

OfNext ==
  \/ OfMount
  \/ OfSetAvailableYears
  \/ OfChangeTeam
  \/ OfSelectMinYear
  \/ OfSelectMaxYear
  \/ OfSetOwnerEraOnly
  \/ OfResolve
  \/ OfReject

\* The parameters of a request are the selection of the current render.
OfCurrent(r) ==
  /\ r.teamId = of_selectedTeamId
  /\ r.startYear = of_minYear
  /\ r.endYear = of_maxYear
  /\ r.currentOwnerEraOnly = of_ownerEraOnly

\* C13: the outcome of an opponent-matrix request whose (selectedTeamId,
\* minYear, maxYear, ownerEraOnly) has since changed is never written to
\* data, error or loading; and whenever loading is false and data is
\* non-null, data is the response to the request for the current selection.
C13_StaleMatrixNeverShown ==
  /\ [](~of_loading /\ of_data.present =>
          /\ of_data.id = of_issued
          /\ OfCurrent(of_data))
  /\ [][\A r \in of_inflight :
          (of_inflight' = of_inflight \ {r} /\ ~OfCurrent(r)) =>
            UNCHANGED <<of_data, of_error, of_loading>>]_vars

\* C13: the response for the current selection is shown, and the outcome of
\* an earlier request arrived after it.
C13_Witness ==
  /\ of_dropped
  /\ ~of_loading
  /\ of_data.present
  /\ of_inflight = {}
  /\ of_issued >= 2

\* C17: whenever minYear and maxYear are both set, minYear <= maxYear, and
\* no opponent-matrix request is sent with startYear > endYear.
C17_YearRangeOrdered ==
  /\ (of_minYear # 0 /\ of_maxYear # 0) => of_minYear <= of_maxYear
  /\ \A r \in of_inflight : r.startYear <= r.endYear

----------------------------------------------------------------------------
(***************************************************************************)
(* App (src/unnamed/part_001): meta, year and week, data requests           *)
(***************************************************************************)

\* Largest number of user actions (selects, Refresh) explored when every
\* request succeeds, of tab changes explored when requests can fail, and of
\* week changes explored when the user does nothing else.
MaxUserActions == 2
MaxUserActionsOnFailure == 2
MaxWeekChanges == 1
\* Largest number of failed requests explored.
MaxFailures == 2

\* Number(x) of something that is not a number.
NotANumber == -998
\* Number(x): values of a response body are numbers (n), numeric strings
\* (kind "string", the number in n), null, or text that is no number.
ToNumber(x) ==
  IF x.kind \in {"number", "string"} THEN x.n
  ELSE IF x.kind = "null" THEN 0
  ELSE NotANumber
Num(n) == [kind |-> "number", n |-> n, list |-> <<>>]
Str(n) == [kind |-> "string", n |-> n, list |-> <<>>]
Junk == [kind |-> "text", n |-> 0, list |-> <<>>]
Arr(list) == [kind |-> "array", n |-> 0, list |-> list]
IsFinite(n) == n # NotANumber

\* useState({ years: [], weeks: [], year: 2025, currentWeek: null, ... })
InitialMeta == [years |-> <<>>, weeks |-> <<>>, year |-> 2025, currentWeek |-> Absent]

\* A field the response body does not have.
Missing == [kind |-> "missing", n |-> 0, list |-> <<>>]
Has(x) == x.kind \notin {"missing", "null"}
\* a ?? b
Coalesce(a, b) == IF Has(a) THEN a ELSE b

\* for (let yr = minYear; yr <= maxYear; yr += 1) years.push(yr)
YearsFromTo(minYear, maxYear) ==
  IF maxYear < minYear \/ ~IsFinite(minYear) \/ ~IsFinite(maxYear) THEN <<>>
  ELSE [i \in 1..(maxYear - minYear + 1) |-> minYear + i - 1]

RECURSIVE MapNumber(_)
MapNumber(list) ==
  IF list = <<>> THEN <<>>
  ELSE <<ToNumber(Head(list))>> \o MapNumber(Tail(list))

\* weeks.filter((w) => w <= currentWeek)   with the filter removed
ClampWeeksOff(weeks, currentWeek) == weeks
\* if (currentWeek != null) weeks = weeks.filter((w) => w <= currentWeek)
ClampWeeks(weeks, currentWeek) ==
  IF currentWeek = Absent THEN weeks
  ELSE LET Within(w) == IsFinite(currentWeek) /\ w <= currentWeek
       IN SelectSeq(weeks, Within)

\* data.availableWeeks || data.weeks || []   (an empty array is truthy)
WeeksRaw(data) ==
  IF data.availableWeeks.kind = "array" THEN data.availableWeeks.list
  ELSE IF data.weeks.kind = "array" THEN data.weeks.list
  ELSE <<>>

\* The finite weeks of the body, ascending.
FiniteWeeksSorted(data) ==
  LET finite == SelectSeq(MapNumber(WeeksRaw(data)), IsFinite)
  IN StableSort(finite, {p \in SeqToSet(finite) \X SeqToSet(finite) :
                           p[1] - p[2] <= 0})

\* fetchMeta, from the response body data of getMeta(y) to normalized;
\* y is Missing when fetchMeta was called without argument.
NormalizeMeta(data, y) ==
  LET minYear == ToNumber(Coalesce(data.minYear, Num(2014)))
      maxYear == ToNumber(Coalesce(data.maxYear,
                            Coalesce(data.year, Coalesce(y, Num(2014)))))
      sorted == FiniteWeeksSorted(data)
      currentWeek ==
        IF Has(data.currentWeek) THEN ToNumber(data.currentWeek)
        ELSE IF Len(sorted) > 0 THEN sorted[Len(sorted)] ELSE Absent
  IN [years |-> YearsFromTo(minYear, maxYear),
      weeks |-> ClampWeeks(sorted, currentWeek),
      year |-> ToNumber(Coalesce(data.year, Coalesce(y, Num(maxYear)))),
      currentWeek |-> currentWeek]

\* Years and weeks of the league in the model.
ApYears == {2024, 2025}
\* What /api/meta answers for a season (the latest one when none is asked
\* for): 2024 is complete with three weeks, 2025 is in its second week.
BackendMeta(y) ==
  IF y = 2024
  THEN [minYear |-> Num(2024), maxYear |-> Num(2025), year |-> Num(2024),
        availableWeeks |-> Arr(<<Num(1), Num(2), Num(3)>>), weeks |-> Missing,
        currentWeek |-> Missing]
  ELSE [minYear |-> Num(2024), maxYear |-> Num(2025), year |-> Num(2025),
        availableWeeks |-> Arr(<<Num(1), Num(2), Num(3)>>), weeks |-> Missing,
        currentWeek |-> Num(2)]
NoRaw ==
  [minYear |-> Missing, maxYear |-> Missing, year |-> Missing,
   availableWeeks |-> Missing, weeks |-> Missing, currentWeek |-> Missing]

\* Response bodies explored for fetchMeta alone.
RawWeekValues == {Num(1), Num(3), Str(2), Junk}
RawWeekLists ==
  {Missing, Arr(<<>>)} \cup {Arr(<<v>>) : v \in RawWeekValues}
    \cup {Arr(<<p[1], p[2]>>) : p \in RawWeekValues \X RawWeekValues}
RawMetas ==
  [minYear : {Missing, Num(2024)}, maxYear : {Missing, Num(2025)},
   year : {Missing, Num(2025)},
   availableWeeks : RawWeekLists, weeks : {Missing, Arr(<<Num(1)>>)},
   currentWeek : {Missing, Num(0), Num(2), Junk}]

\* A data state: the body of a response, or null.
NoPayload == [present |-> FALSE, year |-> 0, week |-> 0, teamId |-> 0]
\* The body the backend answers to a data request.
PayloadOf(r) == [present |-> TRUE, year |-> r.y, week |-> r.w, teamId |-> r.teamId]
\* The team the auto-select effect picks from seasonPower.teams.
FirstTeamId == 1

\* A request in flight.  For a meta request, origin is the load awaiting
\* fetchMeta and cweek the week of the render whose effect started it.
Req(kind, y, w, teamId, origin, cweek) ==
  [kind |-> kind, y |-> y, w |-> w, teamId |-> teamId, origin |-> origin,
   cweek |-> cweek]
Send(s, r) == [s EXCEPT !.inflight = @ (+) SetToBag({r})]

\* The state of the component as one record.
ApState ==
  [tab |-> ap_tab, meta |-> ap_meta, year |-> ap_year, week |-> ap_week,
   weekPower |-> ap_weekPower, seasonPower |-> ap_seasonPower,
   standingsLeague |-> ap_standingsLeague,
   historyTeamId |-> ap_historyTeamId, historyData |-> ap_historyData,
   loadingHistory |-> ap_loadingHistory, loadingMeta |-> ap_loadingMeta,
   loadingWeek |-> ap_loadingWeek, loadingSeason |-> ap_loadingSeason,
   loadingLeague |-> ap_loadingLeague, error |-> ap_error,
   inflight |-> ap_inflight, raw |-> ap_raw, weekAsked |-> ap_weekAsked]

\* fetchMeta(y) up to the await; y = 0 stands for no argument.
FetchMeta(s, y, origin) ==
  Send([s EXCEPT !.loadingMeta = TRUE, !.error = Null],
       Req("meta", y, 0, 0, origin, s.week))

\* fetchWeekPowerData(y, w) up to the await.
FetchWeekPowerData(s, y, w) ==
  IF y = 0 \/ w = 0 THEN s
  ELSE Send([s EXCEPT !.loadingWeek = TRUE, !.error = Null,
                      !.weekAsked = @ \/ (y = s.year /\ w = s.week)],
            Req("week", y, w, 0, "", 0))

\* fetchSeasonPowerData(y) up to the await.
FetchSeasonPowerData(s, y) ==
  IF y = 0 THEN s
  ELSE Send([s EXCEPT !.loadingSeason = TRUE, !.error = Null],
            Req("season", y, 0, 0, "", 0))

\* fetchLeagueStandings(y) up to the await.
FetchLeagueStandings(s, y) ==
  IF y = 0 THEN s
  ELSE Send([s EXCEPT !.loadingLeague = TRUE, !.error = Null],
            Req("league", y, 0, 0, "", 0))

\* fetchHistoryData(y, teamId) up to the await.
FetchHistoryData(s, y, teamId) ==
  IF y = 0 \/ teamId = 0 THEN s
  ELSE Send([s EXCEPT !.loadingHistory = TRUE, !.error = Null],
            Req("history", y, 0, teamId, "", 0))

\* Math.max(...years)
MaxOf(list) == CHOOSE y \in SeqToSet(list) : \A z \in SeqToSet(list) : z <= y
InList(w, list) == w \in SeqToSet(list)
\* JavaScript truthiness of a number or null.
Truthy(n) == n # 0 /\ n # Absent /\ n # NotANumber

\* const standingsYear = useMemo(...)
StandingsYear(s) == IF Len(s.meta.years) > 0 THEN MaxOf(s.meta.years) ELSE 0

\* data.currentWeek && weeks.includes(data.currentWeek)
\*   ? data.currentWeek : weeks[weeks.length - 1]
DefaultWeek(data) ==
  IF Truthy(data.currentWeek) /\ InList(data.currentWeek, data.weeks)
  THEN data.currentWeek
  ELSE data.weeks[Len(data.weeks)]

\* bootstrap(), after await fetchMeta() returned data (not null).
BootstrapRest(s, data) ==
  LET y == data.year
      s1 == IF Truthy(y) THEN [s EXCEPT !.year = y] ELSE s
  IN IF Len(data.weeks) = 0 THEN s1
     ELSE LET defaultWeek == DefaultWeek(data)
              s2 == [s1 EXCEPT !.week = defaultWeek, !.weekAsked = TRUE]
              s3 == FetchSeasonPowerData(FetchWeekPowerData(s2, y, defaultWeek), y)
              latest == IF Len(data.years) > 0 THEN MaxOf(data.years) ELSE y
          IN IF Truthy(latest) THEN FetchLeagueStandings(s3, latest) ELSE s3

\* loadYear(), after await fetchMeta(year) returned data (not null); year and
\* week are those of the render whose effect started the load.
LoadYearRest(s, data, year, week) ==
  IF Len(data.weeks) = 0 THEN s
  ELSE LET keep == week # 0 /\ InList(week, data.weeks)
           w == IF keep THEN week ELSE DefaultWeek(data)
           s1 == IF keep THEN s ELSE [s EXCEPT !.week = w, !.weekAsked = TRUE]
       IN FetchSeasonPowerData(FetchWeekPowerData(s1, year, w), year)

\* The effects of one commit, in declaration order.  cur is the state the
\* commit rendered, old the state of the commit before it, acc the state
\* with the updates queued so far.
StandingsEffect(acc, old, cur, first) ==
  IF (first \/ StandingsYear(cur) # StandingsYear(old)) /\ StandingsYear(cur) # 0
  THEN FetchLeagueStandings(acc, StandingsYear(cur))
  ELSE acc
BootstrapEffect(acc, first) ==
  IF first THEN FetchMeta(acc, 0, "bootstrap") ELSE acc
YearEffect(acc, old, cur, first) ==
  IF (first \/ cur.year # old.year) /\ cur.year # 0
  THEN FetchMeta(acc, cur.year, "loadYear")
  ELSE acc
AutoSelectEffect(acc, old, cur, first) ==
  IF /\ first \/ <<cur.tab, cur.seasonPower, cur.historyTeamId>>
                   # <<old.tab, old.seasonPower, old.historyTeamId>>
     /\ cur.tab = "history"
     /\ cur.historyTeamId = 0
     /\ cur.seasonPower.present
  THEN [acc EXCEPT !.historyTeamId = FirstTeamId]
  ELSE acc
HistoryEffect(acc, old, cur, first) ==
  IF /\ first \/ <<cur.tab, cur.year, cur.historyTeamId>>
                   # <<old.tab, old.year, old.historyTeamId>>
     /\ cur.tab = "history"
     /\ cur.historyTeamId # 0 /\ cur.year # 0
  THEN FetchHistoryData(acc, cur.year, cur.historyTeamId)
  ELSE acc

RunEffects(old, cur, first) ==
  LET a1 == StandingsEffect(cur, old, cur, first)
      a2 == BootstrapEffect(a1, first)
      a3 == YearEffect(a2, old, cur, first)
      a4 == StandingsEffect(a3, old, cur, first)
      a5 == AutoSelectEffect(a4, old, cur, first)
  IN HistoryEffect(a5, old, cur, first)

\* The commits that follow a change from state old to state s: the render of
\* s with its effects, then the render of the team the auto-select effect
\* set.
ApCommitOf(old, s, first) ==
  CHOOSE s2 \in {RunEffects(s, s1, FALSE) : s1 \in {RunEffects(old, s, first)}} :
    TRUE

ApApply(s) ==
  /\ ap_tab' = s.tab
  /\ ap_meta' = s.meta
  /\ ap_year' = s.year
  /\ ap_week' = s.week
  /\ ap_weekPower' = s.weekPower
  /\ ap_seasonPower' = s.seasonPower
  /\ ap_standingsLeague' = s.standingsLeague
  /\ ap_historyTeamId' = s.historyTeamId
  /\ ap_historyData' = s.historyData
  /\ ap_loadingHistory' = s.loadingHistory
  /\ ap_loadingMeta' = s.loadingMeta
  /\ ap_loadingWeek' = s.loadingWeek
  /\ ap_loadingSeason' = s.loadingSeason
  /\ ap_loadingLeague' = s.loadingLeague
  /\ ap_error' = s.error
  /\ ap_inflight' = s.inflight
  /\ ap_raw' = s.raw
  /\ ap_weekAsked' = s.weekAsked

\* The handler or continuation has taken the state to s; the commits follow.
ApCommit(s, first) ==
  \E cur \in {s} :
    \E next \in {ApCommitOf(ApState, cur, first)} : ApApply(next)

ApInit ==
  /\ ap_tab = "overview"
  /\ ap_meta = InitialMeta
  /\ ap_year = 2025
  /\ ap_week = 1
  /\ ap_weekPower = NoPayload
  /\ ap_seasonPower = NoPayload
  /\ ap_standingsLeague = NoPayload
  /\ ap_historyTeamId = 0
  /\ ap_historyData = NoPayload
  /\ ap_loadingHistory = FALSE
  /\ ap_loadingMeta = FALSE
  /\ ap_loadingWeek = FALSE
  /\ ap_loadingSeason = FALSE
  /\ ap_loadingLeague = FALSE
  /\ ap_error = Null
  /\ ap_inflight = EmptyBag
  /\ ap_mounted = FALSE
  /\ ap_raw = NoRaw
  /\ ap_weekAsked = TRUE
  /\ ap_userActions = 0
  /\ ap_failures = 0

\* The first commit.
ApMount ==
  /\ ~ap_mounted
  /\ ap_mounted' = TRUE
  /\ ApCommit(ApState, TRUE)
  /\ UNCHANGED <<ap_userActions, ap_failures>>
  /\ ApFrame

\* A user action that takes the state to s.
ApUser(s, max) ==
  /\ ap_mounted
  /\ ap_userActions < max
  /\ ap_userActions' = ap_userActions + 1
  /\ ApCommit(s, FALSE)
  /\ UNCHANGED <<ap_mounted, ap_failures>>
  /\ ApFrame

\* onChange of the Year select.
ApSelectYear(max) ==
  \E y \in SeqToSet(ap_meta.years) \ {ap_year} :
    ApUser([ApState EXCEPT !.year = y, !.weekAsked = TRUE], max)

\* onChange of the Week select.
ApSelectWeek(max) ==
  \E w \in SeqToSet(ap_meta.weeks) \ {ap_week} :
    ApUser([ApState EXCEPT !.week = w, !.weekAsked = FALSE], max)

\* handleRefresh
HandleRefresh(s) ==
  LET s1 == IF s.tab \in {"overview", "dashboard"}
            THEN LET a == IF s.year # 0 /\ s.week # 0
                          THEN FetchWeekPowerData(s, s.year, s.week) ELSE s
                 IN IF s.year # 0 THEN FetchSeasonPowerData(a, s.year) ELSE a
            ELSE s
      s2 == IF StandingsYear(s) # 0
            THEN FetchLeagueStandings(s1, StandingsYear(s)) ELSE s1
  IN IF s.tab = "history" /\ s.historyTeamId # 0 /\ s.year # 0
     THEN FetchHistoryData(s2, s.year, s.historyTeamId)
     ELSE s2
ApRefresh(max) ==
  /\ ap_mounted
  /\ ApUser(HandleRefresh(ApState), max)

\* onClick of a tab button.
ApTabs == {"overview", "history"}
ApSetTab(max) ==
  \E t \in ApTabs \ {ap_tab} : ApUser([ApState EXCEPT !.tab = t], max)

\* A promise settles: the continuation takes the state to s.
ApSettle(r, s, ok) ==
  /\ ApCommit(s, FALSE)
  /\ ap_failures' = IF ok THEN ap_failures ELSE ap_failures + 1
  /\ UNCHANGED <<ap_mounted, ap_userActions>>
  /\ ApFrame

Taken(r) == [ApState EXCEPT !.inflight = @ (-) SetToBag({r})]

\* fetchMeta after the await resolved with body, and the load awaiting it.
MetaRest(r, body, data, s) ==
  IF r.origin = "bootstrap" THEN BootstrapRest(s, data)
  ELSE LoadYearRest(s, data, r.y, r.cweek)
MetaLoaded(r, body) ==
  CHOOSE rest \in
    {MetaRest(r, body, data,
              [Taken(r) EXCEPT !.meta = data, !.raw = body, !.loadingMeta = FALSE]) :
       data \in {NormalizeMeta(body, IF r.y = 0 THEN Missing ELSE Num(r.y))}} :
    TRUE

ApMetaResolve ==
  \E r \in BagToSet(ap_inflight) :
    /\ r.kind = "meta"
    /\ ApSettle(r, MetaLoaded(r, BackendMeta(r.y)), TRUE)

\* e.message of a failed request.
ErrorMessage == "Failed to fetch"

\* fetchMeta: catch and finally; the load awaiting it returns on null.
ApMetaReject ==
  \E r \in BagToSet(ap_inflight) :
    /\ r.kind = "meta"
    /\ ap_failures < MaxFailures
    /\ ApSettle(r, [Taken(r) EXCEPT !.error = ErrorMessage,
                                    !.loadingMeta = FALSE], FALSE)

\* The data state and loading flag a kind of request writes.
Loaded(s, kind, value) ==
  IF kind = "week" THEN [s EXCEPT !.weekPower = value, !.loadingWeek = FALSE]
  ELSE IF kind = "season"
  THEN [s EXCEPT !.seasonPower = value, !.loadingSeason = FALSE]
  ELSE IF kind = "league"
  THEN [s EXCEPT !.standingsLeague = value, !.loadingLeague = FALSE]
  ELSE [s EXCEPT !.historyData = value, !.loadingHistory = FALSE]

\* try { const data = await get...; set...(data) } finally { setLoading...(false) }
ApDataResolve ==
  \E r \in BagToSet(ap_inflight) :
    /\ r.kind # "meta"
    /\ ApSettle(r, Loaded(Taken(r), r.kind, PayloadOf(r)), TRUE)

\* set...(null) in the catch block, with the previous value kept instead
DataAfterFailureKept(prev) == prev
\* set...(null) in the catch block
DataAfterFailure(prev) == NoPayload
DataOf(s, kind) ==
  IF kind = "week" THEN s.weekPower
  ELSE IF kind = "season" THEN s.seasonPower
  ELSE IF kind = "league" THEN s.standingsLeague
  ELSE s.historyData

\* catch (e) { setError(e.message || "..."); set...(null) } finally { ... }
ApDataReject ==
  \E r \in BagToSet(ap_inflight) :
    /\ r.kind # "meta"
    /\ ap_failures < MaxFailures
    /\ ApSettle(r, [Loaded(Taken(r), r.kind,
                           DataAfterFailure(DataOf(ApState, r.kind)))
                      EXCEPT !.error = ErrorMessage], FALSE)

\* The overview tab stays open and every request succeeds.
ApNext ==
  \/ ApMount
  \/ ApSelectYear(MaxUserActions)
  \/ ApSelectWeek(MaxUserActions)
  \/ ApRefresh(MaxUserActions)
  \/ ApMetaResolve
  \/ ApDataResolve

\* Requests can fail; the user only switches between the tabs.
ApFailNext ==
  \/ ApMount
  \/ ApSetTab(MaxUserActionsOnFailure)
  \/ ApMetaResolve
  \/ ApMetaReject
  \/ ApDataResolve
  \/ ApDataReject

\* The user changes the week and does nothing else.
ApWeekNext ==
  \/ ApMount
  \/ ApSelectWeek(MaxWeekChanges)
  \/ ApMetaResolve
  \/ ApDataResolve

\* Response bodies of every explored shape, for fetchMeta alone.
ApMetaResolveAny ==
  \E r \in BagToSet(ap_inflight), body \in RawMetas :
    /\ r.kind = "meta"
    /\ ap_raw = NoRaw
    /\ ApSettle(r, MetaLoaded(r, body), TRUE)
ApMetaNext ==
  \/ ApMount
  \/ ApMetaResolveAny

NoneInFlight(kind) == \A r \in BagToSet(ap_inflight) : r.kind # kind

\* C14: after any sequence of year selections, once no request is in flight
\* the seasonPower state is the response to the season-power request for the
\* currently selected year.
C14_SeasonPowerOfSelectedYear ==
  (ap_mounted /\ ap_inflight = EmptyBag) =>
    (ap_seasonPower.present /\ ap_seasonPower.year = ap_year)

\* C15: after the user changes the selected week (year unchanged), a
\* week-power request for (year, new week) is eventually issued without any
\* further user action.
C15_WeekChangeRequestsWeekPower == (~ap_weekAsked) ~> ap_weekAsked

\* C16: loadingWeek is true in every state in which at least one week-power
\* request is still in flight.
C16_LoadingWeekWhileInFlight == ~NoneInFlight("week") => ap_loadingWeek

\* C18: once no meta request is in flight and meta.weeks is non-empty, the
\* selected week is a member of meta.weeks.
C18_WeekWithinLoadedWeeks ==
  (ap_mounted /\ NoneInFlight("meta") /\ Len(ap_meta.weeks) > 0) =>
    InList(ap_week, ap_meta.weeks)

\* The numbers among the weeks of a response body.
AvailableWeeks(body) ==
  LET list == IF body.availableWeeks.kind = "array"
              THEN body.availableWeeks.list ELSE body.weeks.list
  IN {ToNumber(list[i]) : i \in 1..Len(list)} \ {NotANumber}
Ascending(list) == \A i \in 1..(Len(list) - 1) : list[i] <= list[i + 1]
Contiguous(list) == \A i \in 1..(Len(list) - 1) : list[i + 1] = list[i] + 1

\* C19: after every successful fetchMeta, meta.weeks is sorted ascending,
\* holds only finite numbers and no week greater than meta.currentWeek when
\* currentWeek is non-null; currentWeek is the backend's currentWeek when
\* present, otherwise the largest available week; and meta.years is the
\* contiguous ascending range minYear..maxYear.
C19_FetchMetaNormalizes ==
  ap_raw # NoRaw =>
    LET weeks == ap_meta.weeks
        years == ap_meta.years
        cw == ap_meta.currentWeek
    IN /\ Ascending(weeks)
       /\ \A i \in 1..Len(weeks) : weeks[i] \notin {NotANumber, Absent}
       /\ cw # Absent => \A i \in 1..Len(weeks) : cw # NotANumber /\ weeks[i] <= cw
       /\ ap_raw.currentWeek.kind = "number" => cw = ap_raw.currentWeek.n
       /\ ap_raw.currentWeek = Missing =>
            IF AvailableWeeks(ap_raw) = {} THEN cw = Absent
            ELSE /\ cw \in AvailableWeeks(ap_raw)
                 /\ \A w \in AvailableWeeks(ap_raw) : w <= cw
       /\ Contiguous(years)
       /\ (ap_raw.minYear # Missing /\ ap_raw.maxYear # Missing) =>
            /\ Len(years) = ap_raw.maxYear.n - ap_raw.minYear.n + 1
            /\ years[1] = ap_raw.minYear.n
            /\ years[Len(years)] = ap_raw.maxYear.n

\* C19: a body whose weeks are out of order, one of them beyond currentWeek.
C19_Witness ==
  /\ ap_raw.availableWeeks = Arr(<<Num(3), Str(2)>>)
  /\ ap_raw.currentWeek = Num(2)
  /\ ap_meta.weeks = <<2>>
  /\ ap_meta.currentWeek = 2

\* C20: when a meta request fails, meta, year and week are left unchanged,
\* the message is stored in error, loadingMeta returns to false and the load
\* that issued it sends no request; when a week-power, season-power,
\* standings or team-history request fails, its data state becomes null,
\* error is set and its loading flag returns to false.
C20_FailureHandling ==
  [][ap_failures' = ap_failures + 1 =>
       \E r \in BagToSet(ap_inflight) :
         /\ CopiesIn(r, ap_inflight') = CopiesIn(r, ap_inflight) - 1
         /\ ap_error' = ErrorMessage
         /\ r.kind = "meta" =>
              /\ UNCHANGED <<ap_meta, ap_year, ap_week>>
              /\ ~ap_loadingMeta'
              /\ ap_inflight' = ap_inflight (-) SetToBag({r})
         /\ r.kind = "week" => ~ap_weekPower'.present /\ ~ap_loadingWeek'
         /\ r.kind = "season" => ~ap_seasonPower'.present /\ ~ap_loadingSeason'
         /\ r.kind = "league" => ~ap_standingsLeague'.present /\ ~ap_loadingLeague'
         /\ r.kind = "history" => ~ap_historyData'.present /\ ~ap_loadingHistory'
    ]_vars

\* C20: the meta request of the bootstrap or of the first year load has
\* failed, the other one is still awaited.
C20_Witness ==
  /\ ap_failures = 1
  /\ ap_userActions = 0
  /\ ap_meta = InitialMeta
  /\ ap_error = ErrorMessage
  /\ ~ap_loadingMeta
  /\ BagCardinality(ap_inflight) = 1

----------------------------------------------------------------------------
(***************************************************************************)
(* App of src/unnamed/part_000: year change and the history selection      *)
(*                                                                         *)
(* As for the App of part_001, a handler or the continuation of a settled  *)
(* request runs together with the commit and the effects that follow it.   *)
(* fetchMeta stores the body as it is.  Requests are answered; selectedTeamId *)
(* 0 stands for null.  A season has the teams BackendTeams gives it, in    *)
(* its season power and in every week power.                               *)
(***************************************************************************)

\* Most changes of the Year select, of the Team select and of the tab.
MaxYearChanges == 1
MaxTeamChanges == 1
MaxTabChanges == 1

\* useState of meta
P0InitialMeta ==
  [years |-> <<>>, weeks |-> <<>>, year |-> 2025, currentWeek |-> Absent]

\* What /api/meta answers for a season (the latest one when none is asked
\* for).
P0BackendMeta(y) ==
  IF y = 2024
  THEN [years |-> <<2024, 2025>>, weeks |-> <<1, 2>>, year |-> 2024,
        currentWeek |-> Absent]
  ELSE [years |-> <<2024, 2025>>, weeks |-> <<1, 2>>, year |-> 2025,
        currentWeek |-> 2]

\* The teamIds of the rows the backend answers for a season: team 1 plays
\* both seasons, team 2 only the later one, and the earlier season has a
\* row with teamId 0.
BackendTeams(y) == IF y = 2024 THEN {0, 1} ELSE {1, 2}

\* A request in flight.  A meta request carries the load awaiting it
\* (origin) and what that load's closure holds: week, selectedTeamId and
\* teamsForYear of the render whose effect started it.
P0Req(kind, y, w, teamId, origin, cweek, cteam, cteams) ==
  [kind |-> kind, y |-> y, w |-> w, teamId |-> teamId, origin |-> origin,
   cweek |-> cweek, cteam |-> cteam, cteams |-> cteams]
P0DataReq(kind, y, w, teamId) == P0Req(kind, y, w, teamId, "", 0, 0, {})

\* The state of the component as one record.
P0State ==
  [tab |-> p0_tab, meta |-> p0_meta, year |-> p0_year, week |-> p0_week,
   weekPower |-> p0_weekPower, seasonPower |-> p0_seasonPower,
   leagueInfo |-> p0_leagueInfo, selectedTeamId |-> p0_selectedTeamId,
   teamHistory |-> p0_teamHistory, loadingMeta |-> p0_loadingMeta,
   loadingWeek |-> p0_loadingWeek, loadingSeason |-> p0_loadingSeason,
   loadingLeague |-> p0_loadingLeague, loadingHistory |-> p0_loadingHistory,
   error |-> p0_error, inflight |-> p0_inflight]

\* const standingsYear = useMemo(...)
P0StandingsYear(s) ==
  IF Len(s.meta.years) > 0 THEN MaxOf(s.meta.years) ELSE s.year

\* const teamsForYear = useMemo(...): the teamIds of
\* (seasonPower?.teams || weekPower?.teams || []).filter(t => t.teamId && t.teamId !== 0)
TeamsForYear(s) ==
  LET teams == IF s.seasonPower.present THEN BackendTeams(s.seasonPower.year)
               ELSE IF s.weekPower.present THEN BackendTeams(s.weekPower.year)
               ELSE {}
  IN {t \in teams : t # 0}

\* fetchMeta(y) up to the await; y = 0 stands for no argument.  cur is the
\* render whose effect makes the call.
P0FetchMeta(s, y, origin, cur) ==
  Send([s EXCEPT !.loadingMeta = TRUE, !.error = Null],
       P0Req("meta", y, 0, 0, origin, cur.week, cur.selectedTeamId,
             TeamsForYear(cur)))

\* fetchWeekPower(y, w) up to the await.
P0FetchWeekPower(s, y, w) ==
  IF y = 0 \/ w = 0 THEN s
  ELSE Send([s EXCEPT !.loadingWeek = TRUE, !.error = Null],
            P0DataReq("week", y, w, 0))

\* fetchSeasonPower(y) up to the await.
P0FetchSeasonPower(s, y) ==
  IF y = 0 THEN s
  ELSE Send([s EXCEPT !.loadingSeason = TRUE, !.error = Null],
            P0DataReq("season", y, 0, 0))

\* fetchLeague(y) up to the await.
P0FetchLeague(s, y) ==
  IF y = 0 THEN s
  ELSE Send([s EXCEPT !.loadingLeague = TRUE, !.error = Null],
            P0DataReq("league", y, 0, 0))

\* fetchTeamHistory(y, teamId) up to the await.
P0FetchTeamHistory(s, y, teamId) ==
  IF y = 0 \/ teamId = 0 THEN s
  ELSE Send([s EXCEPT !.loadingHistory = TRUE, !.error = Null],
            P0DataReq("history", y, 0, teamId))

\* bootstrap(), after await fetchMeta() returned data (not null).
P0BootstrapRest(s, data) ==
  LET y == data.year
      s1 == IF Truthy(y) THEN [s EXCEPT !.year = y] ELSE s
  IN IF Len(data.weeks) = 0 THEN s1
     ELSE LET defaultWeek == DefaultWeek(data)
              s2 == [s1 EXCEPT !.week = defaultWeek]
          IN P0FetchSeasonPower(P0FetchWeekPower(s2, y, defaultWeek), y)

\* "if selected team doesn't exist this year, clear history selection":
\* selectedTeamId and teamsForYear are those of the closure.
ClearMissingTeam(s, selectedTeamId, teamsForYear) ==
  IF selectedTeamId # 0 /\ selectedTeamId \notin teamsForYear
  THEN [s EXCEPT !.selectedTeamId = 0, !.teamHistory = NoPayload]
  ELSE s

\* loadYear(), after await fetchMeta(year) returned data (not null); r is
\* the meta request, with the closure of the load.
P0LoadYearRest(s, data, r) ==
  IF Len(data.weeks) = 0 THEN s
  ELSE LET keep == r.cweek # 0 /\ InList(r.cweek, data.weeks)
           w == IF keep THEN r.cweek ELSE DefaultWeek(data)
           s1 == IF keep THEN s ELSE [s EXCEPT !.week = w]
           s2 == P0FetchSeasonPower(P0FetchWeekPower(s1, r.y, w), r.y)
       IN ClearMissingTeam(s2, r.cteam, r.cteams)

\* The effects of one commit, in declaration order.  cur is the state the
\* commit rendered, old the state of the commit before it, acc the state
\* with the updates queued so far.
P0BootstrapEffect(acc, cur, first) ==
  IF first THEN P0FetchMeta(acc, 0, "bootstrap", cur) ELSE acc
P0YearEffect(acc, old, cur, first) ==
  IF (first \/ cur.year # old.year) /\ cur.year # 0
  THEN P0FetchMeta(acc, cur.year, "loadYear", cur)
  ELSE acc
P0StandingsEffect(acc, old, cur, first) ==
  IF /\ first \/ P0StandingsYear(cur) # P0StandingsYear(old)
     /\ P0StandingsYear(cur) # 0
  THEN P0FetchLeague(acc, P0StandingsYear(cur))
  ELSE acc
P0HistoryEffect(acc, old, cur, first) ==
  IF /\ first \/ <<cur.tab, cur.year, cur.selectedTeamId>>
                   # <<old.tab, old.year, old.selectedTeamId>>
     /\ cur.tab = "history"
     /\ cur.year # 0 /\ cur.selectedTeamId # 0
  THEN P0FetchTeamHistory(acc, cur.year, cur.selectedTeamId)
  ELSE acc

P0RunEffects(old, cur, first) ==
  LET a1 == P0BootstrapEffect(cur, cur, first)
      a2 == P0YearEffect(a1, old, cur, first)
      a3 == P0StandingsEffect(a2, old, cur, first)
  IN P0HistoryEffect(a3, old, cur, first)

P0Apply(s) ==
  /\ p0_tab' = s.tab
  /\ p0_meta' = s.meta
  /\ p0_year' = s.year
  /\ p0_week' = s.week
  /\ p0_weekPower' = s.weekPower
  /\ p0_seasonPower' = s.seasonPower
  /\ p0_leagueInfo' = s.leagueInfo
  /\ p0_selectedTeamId' = s.selectedTeamId
  /\ p0_teamHistory' = s.teamHistory
  /\ p0_loadingMeta' = s.loadingMeta
  /\ p0_loadingWeek' = s.loadingWeek
  /\ p0_loadingSeason' = s.loadingSeason
  /\ p0_loadingLeague' = s.loadingLeague
  /\ p0_loadingHistory' = s.loadingHistory
  /\ p0_error' = s.error
  /\ p0_inflight' = s.inflight

\* The handler or continuation has taken the state to s; the commit and its
\* effects follow.
P0Commit(s, first) ==
  \E cur \in {s} :
    \E next \in {P0RunEffects(P0State, cur, first)} : P0Apply(next)

P0Init ==
  /\ p0_tab = "overview"
  /\ p0_meta = P0InitialMeta
  /\ p0_year = 2025
  /\ p0_week = 1
  /\ p0_weekPower = NoPayload
  /\ p0_seasonPower = NoPayload
  /\ p0_leagueInfo = NoPayload
  /\ p0_selectedTeamId = 0
  /\ p0_teamHistory = NoPayload
  /\ p0_loadingMeta = FALSE
  /\ p0_loadingWeek = FALSE
  /\ p0_loadingSeason = FALSE
  /\ p0_loadingLeague = FALSE
  /\ p0_loadingHistory = FALSE
  /\ p0_error = Null
  /\ p0_inflight = EmptyBag
  /\ p0_mounted = FALSE
  /\ p0_prevTeam = 0
  /\ p0_yearChanges = 0
  /\ p0_teamChanges = 0
  /\ p0_tabChanges = 0

\* The first commit.
P0Mount ==
  /\ ~p0_mounted
  /\ p0_mounted' = TRUE
  /\ P0Commit(P0State, TRUE)
  /\ UNCHANGED <<p0_prevTeam, p0_yearChanges, p0_teamChanges, p0_tabChanges>>
  /\ P0Frame

\* onClick of a tab button.
P0Tabs == {"overview", "history"}
P0SetTab ==
  /\ p0_mounted
  /\ p0_tabChanges < MaxTabChanges
  /\ p0_tabChanges' = p0_tabChanges + 1
  /\ \E t \in P0Tabs \ {p0_tab} : P0Commit([P0State EXCEPT !.tab = t], FALSE)
  /\ UNCHANGED <<p0_mounted, p0_prevTeam, p0_yearChanges, p0_teamChanges>>
  /\ P0Frame

\* onChange of the Year select.
P0SelectYear ==
  /\ p0_mounted
  /\ p0_yearChanges < MaxYearChanges
  /\ p0_yearChanges' = p0_yearChanges + 1
  /\ p0_prevTeam' = p0_selectedTeamId
  /\ \E y \in SeqToSet(p0_meta.years) \ {p0_year} :
       P0Commit([P0State EXCEPT !.year = y], FALSE)
  /\ UNCHANGED <<p0_mounted, p0_teamChanges, p0_tabChanges>>
  /\ P0Frame

\* HistoryTab, rendered when !loadingMeta && tab === "history": handleChange
\* of the Team select, whose options are "" (Number("") is 0) and the teams
\* of teamsForYear.
P0SelectTeam ==
  /\ p0_mounted
  /\ p0_tab = "history" /\ ~p0_loadingMeta
  /\ p0_teamChanges < MaxTeamChanges
  /\ p0_teamChanges' = p0_teamChanges + 1
  /\ p0_prevTeam' = 0
  /\ \E t \in (TeamsForYear(P0State) \cup {0}) \ {p0_selectedTeamId} :
       P0Commit([P0State EXCEPT !.selectedTeamId = t], FALSE)
  /\ UNCHANGED <<p0_mounted, p0_yearChanges, p0_tabChanges>>
  /\ P0Frame

\* A promise settles: the continuation takes the state to s.
P0Settle(s) ==
  /\ P0Commit(s, FALSE)
  /\ UNCHANGED <<p0_mounted, p0_prevTeam, p0_yearChanges, p0_teamChanges,
                 p0_tabChanges>>
  /\ P0Frame

P0Taken(r) == [P0State EXCEPT !.inflight = @ (-) SetToBag({r})]

\* fetchMeta after the await resolved with data (setMeta(data), finally),
\* and the load awaiting it.
P0MetaLoaded(r, data) ==
  LET s == [P0Taken(r) EXCEPT !.meta = data, !.loadingMeta = FALSE]
  IN IF r.origin = "bootstrap" THEN P0BootstrapRest(s, data)
     ELSE P0LoadYearRest(s, data, r)

P0MetaResolve ==
  \E r \in BagToSet(p0_inflight) :
    /\ r.kind = "meta"
    /\ P0Settle(P0MetaLoaded(r, P0BackendMeta(r.y)))

\* The data state and loading flag a kind of request writes.
P0Loaded(s, kind, value) ==
  IF kind = "week" THEN [s EXCEPT !.weekPower = value, !.loadingWeek = FALSE]
  ELSE IF kind = "season"
  THEN [s EXCEPT !.seasonPower = value, !.loadingSeason = FALSE]
  ELSE IF kind = "league"
  THEN [s EXCEPT !.leagueInfo = value, !.loadingLeague = FALSE]
  ELSE [s EXCEPT !.teamHistory = value, !.loadingHistory = FALSE]

\* try { const data = await api.get...; set...(data) } finally { setLoading...(false) }
P0DataResolve ==
  \E r \in BagToSet(p0_inflight) :
    /\ r.kind # "meta"
    /\ P0Settle(P0Loaded(P0Taken(r), r.kind, PayloadOf(r)))

P0Next ==
  \/ P0Mount
  \/ P0SetTab
  \/ P0SelectYear
  \/ P0SelectTeam
  \/ P0MetaResolve
  \/ P0DataResolve

\* The page has settled on the selected year: nothing is in flight, and meta
\* and seasonPower are those of the selected year.
P0YearLoaded ==
  /\ p0_mounted
  /\ p0_inflight = EmptyBag
  /\ p0_meta.year = p0_year
  /\ p0_seasonPower.present /\ p0_seasonPower.year = p0_year

\* C22: once the year the user changed to has loaded, a team that was
\* selected at the change and is not among the teams of the new year is
\* cleared together with teamHistory, and one that is among them is kept.
C22_MissingTeamCleared ==
  (P0YearLoaded /\ p0_prevTeam # 0) =>
    IF p0_prevTeam \in BackendTeams(p0_year)
    THEN p0_selectedTeamId = p0_prevTeam
    ELSE p0_selectedTeamId = 0 /\ ~p0_teamHistory.present


----------------------------------------------------------------------------
(***************************************************************************)
(* The requests of the App of src/unnamed/part_001, OpponentAnalysisTab    *)
(* and AwardsTab, as api/client.js (src/unnamed/part_002) builds them.     *)
(*                                                                         *)
(* A step is one run of a handler or effect that calls the client; its     *)
(* inputs are the state and props it reads, drawn from the values they     *)
(* take.  A JavaScript value is a record with its type (t), its number (n) *)
(* and its text (s); a request is the method, the path and the query       *)
(* string as a function from parameter names to their text.                *)
(***************************************************************************)

JNum(n) == [t |-> "number", n |-> n, s |-> ""]
JStr(s) == [t |-> "string", n |-> 0, s |-> s]
JBool(b) == [t |-> "boolean", n |-> IF b THEN 1 ELSE 0, s |-> ""]
JNull == [t |-> "null", n |-> 0, s |-> ""]
JUndefined == [t |-> "undefined", n |-> 0, s |-> ""]

\* Truthiness: what "!x", "x ? a : b" and "x && y" test.
JTruthy(v) ==
  CASE v.t = "number" -> v.n # 0
    [] v.t = "string" -> v.s # ""
    [] v.t = "boolean" -> v.n = 1
    [] OTHER -> FALSE

\* String(value).trim() of a parameter value.
JString(v) ==
  CASE v.t = "number" -> ToString(v.n)
    [] v.t = "string" -> v.s
    [] v.t = "boolean" -> IF v.n = 1 THEN "true" ELSE "false"
    [] OTHER -> v.t

\* Number(teamId) of the value of a select option.
JNumber(v) ==
  IF v.t = "string"
  THEN JNum(CHOOSE n \in 0..9 : ToString(n) = v.s)
  ELSE v

\* A parameter with a default value: the default applies to undefined.
Default(v, d) == IF v = JUndefined THEN d ELSE v
\* x ? 1 : 0
OneOrZero(v) == JNum(IF JTruthy(v) THEN 1 ELSE 0)
\* A property of an object literal, undefined when it has none.
Field(obj, k) == IF k \in DOMAIN obj THEN obj[k] ELSE JUndefined

\* buildUrl: null, undefined and "" are left out of the query string.
BuildUrl(path, params) ==
  [path |-> path,
   query |-> [k \in {j \in DOMAIN params :
                       params[j] \notin {JNull, JUndefined, JStr("")}}
                |-> JString(params[k])]]

\* fetchJson: fetch(url), with no options: a GET.
FetchJson(path, params) ==
  LET url == BuildUrl(path, params)
  IN [method |-> "GET", path |-> url.path, query |-> url.query]

GetMeta(year) ==
  FetchJson("/api/meta",
            IF year \notin {JNull, JUndefined} THEN [year |-> year] ELSE <<>>)

GetLeague(year, refresh) ==
  FetchJson("/api/league",
            [year |-> year,
             refresh |-> OneOrZero(Default(refresh, JBool(FALSE)))])

GetWeekPower(year, week, refresh) ==
  FetchJson("/api/analysis/week-power",
            [year |-> year, week |-> week,
             refresh |-> OneOrZero(Default(refresh, JBool(FALSE)))])

GetSeasonPower(year, refresh) ==
  FetchJson("/api/analysis/season-power",
            [year |-> year,
             refresh |-> OneOrZero(Default(refresh, JBool(FALSE)))])

GetTeamHistory(year, teamId, refresh) ==
  FetchJson("/api/analysis/team-history",
            [year |-> year, teamId |-> teamId,
             refresh |-> OneOrZero(Default(refresh, JBool(FALSE)))])

\* getOpponentMatrix called with an object.
GetOpponentMatrix(arg1) ==
  LET p1 == IF "currentOwnerEraOnly" \in DOMAIN arg1
            THEN [arg1 EXCEPT !.currentOwnerEraOnly = OneOrZero(@)]
            ELSE arg1
      p2 == IF "refresh" \in DOMAIN p1 /\ p1.refresh.t = "boolean"
            THEN [p1 EXCEPT !.refresh = OneOrZero(@)]
            ELSE p1
  IN FetchJson("/api/analysis/opponent-matrix", p2)

GetOpponentMatrixMulti(startYear, endYear, teamId, currentOwnerEraOnly, refresh) ==
  GetOpponentMatrix(
    [startYear |-> startYear, endYear |-> endYear, teamId |-> teamId,
     currentOwnerEraOnly |-> Default(currentOwnerEraOnly, JBool(FALSE)),
     refresh |-> Default(refresh, JBool(FALSE))])

\* getAwards({scope, mode, year, teamId, ownerCode, currentOwnerEraOnly}):
\* only the destructured properties reach the query.
GetAwards(arg) ==
  FetchJson("/api/analysis/awards",
            [scope |-> Default(Field(arg, "scope"), JStr("league")),
             mode |-> Default(Field(arg, "mode"), JStr("summary")),
             year |-> Default(Field(arg, "year"), JStr("all_time")),
             teamId |-> Default(Field(arg, "teamId"), JNull),
             ownerCode |-> Default(Field(arg, "ownerCode"), JNull),
             currentOwnerEraOnly |->
               OneOrZero(Default(Field(arg, "currentOwnerEraOnly"), JBool(TRUE)))])

\* ---- App (src/unnamed/part_001): the fetchers up to their request ----

\* fetchMeta(y)
RqFetchMeta(y) == {GetMeta(y)}

\* fetchWeekPowerData(y, w)
RqFetchWeekPowerData(y, w) ==
  IF ~JTruthy(y) \/ ~JTruthy(w) THEN {}
  ELSE {GetWeekPower(y, w, JUndefined)}

\* fetchSeasonPowerData(y)
RqFetchSeasonPowerData(y) ==
  IF ~JTruthy(y) THEN {} ELSE {GetSeasonPower(y, JUndefined)}

\* What getLeague receives as refresh if fetchLeagueStandings handed its
\* second argument on.
LeagueRefreshForwarded(second) == second
\* What getLeague receives as refresh: fetchLeagueStandings = async (y) has
\* one parameter and calls getLeague(y).
LeagueRefresh(second) == JUndefined

\* fetchLeagueStandings(y, second)
RqFetchLeagueStandings(y, second) ==
  IF ~JTruthy(y) THEN {} ELSE {GetLeague(y, LeagueRefresh(second))}

\* fetchHistoryData(y, teamId)
RqFetchHistoryData(y, teamId) ==
  IF ~JTruthy(y) \/ ~JTruthy(teamId) THEN {}
  ELSE {GetTeamHistory(y, teamId, JUndefined)}

\* fetchAwards()
RqFetchAwards ==
  {GetAwards([scope |-> JStr("league"), year |-> JStr("all_time"),
              mode |-> JStr("summary"), currentOwnerEraOnly |-> JBool(TRUE)])}

\* Values of the state the call sites read.
RqTabs == {"overview", "dashboard", "history", "opponent", "awards"}
RqYears == {JNum(0), JNum(2024), JNum(2025)}
RqWeeks == {JNum(0), JNum(1), JNum(2)}
RqTeamIds == {JNull, JNum(1), JNum(2)}
RqBooleans == {JBool(FALSE), JBool(TRUE)}

RqStep(site, sent) ==
  /\ rq_site' = site
  /\ rq_sent' = sent
  /\ RqFrame

RqInit ==
  /\ rq_site = ""
  /\ rq_sent = {}

\* bootstrap() and loadYear(): fetchMeta() or fetchMeta(year).
RqLoadMeta ==
  \E y \in RqYears \cup {JUndefined} :
    RqStep("fetchMeta", RqFetchMeta(y))

\* bootstrap() and loadYear() after the meta: week power and season power,
\* and in bootstrap the standings of the latest year.
RqLoadData ==
  \E y \in RqYears, w \in RqWeeks, latest \in RqYears \cup {JUndefined} :
    RqStep("load",
           RqFetchWeekPowerData(y, w) \cup RqFetchSeasonPowerData(y)
             \cup (IF latest = JUndefined THEN {}
                   ELSE RqFetchLeagueStandings(latest, JUndefined)))

\* The standings effects: if (standingsYear) fetchLeagueStandings(standingsYear)
RqStandingsEffect ==
  \E y \in RqYears :
    RqStep("standingsEffect", RqFetchLeagueStandings(y, JUndefined))

\* The history effect.
RqHistoryEffect ==
  \E y \in RqYears, t \in RqTeamIds :
    RqStep("historyEffect", RqFetchHistoryData(y, t))

\* The awards effect: if (tab !== "awards") return; fetchAwards()
RqAwardsEffect ==
  \E tab \in RqTabs :
    RqStep("awardsEffect", IF tab # "awards" THEN {} ELSE RqFetchAwards)

\* handleRefresh: onClick of the Refresh button.
RqHandleRefresh ==
  \E tab \in RqTabs, year \in RqYears, week \in RqWeeks,
     standingsYear \in RqYears, historyTeamId \in RqTeamIds :
    RqStep("handleRefresh",
           (IF tab \in {"overview", "dashboard"}
            THEN (IF JTruthy(year) /\ JTruthy(week)
                  THEN RqFetchWeekPowerData(year, week) ELSE {})
                 \cup (IF JTruthy(year) THEN RqFetchSeasonPowerData(year) ELSE {})
            ELSE {})
           \cup (IF JTruthy(standingsYear)
                 THEN RqFetchLeagueStandings(standingsYear, JBool(TRUE))
                 ELSE {})
           \cup (IF tab = "history" /\ JTruthy(historyTeamId) /\ JTruthy(year)
                 THEN RqFetchHistoryData(year, historyTeamId)
                 ELSE {}))

\* ---- OpponentAnalysisTab: run() of the fetch effect ----
RqOpponentRun ==
  \E minYear \in RqYears, maxYear \in RqYears, selectedTeamId \in RqTeamIds,
     ownerEraOnly \in RqBooleans :
    RqStep("opponentRun",
           IF ~JTruthy(selectedTeamId) \/ ~JTruthy(minYear) \/ ~JTruthy(maxYear)
           THEN {}
           ELSE {GetOpponentMatrixMulti(minYear, maxYear, selectedTeamId,
                                        ownerEraOnly, JBool(FALSE))})

\* ---- AwardsTab: run() of the fetch effect ----
RqAwardsRun ==
  \E scope \in Scopes, mode \in Modes, year \in AwYears,
     teamId \in {""} \cup UNION {SeqToSet(l) : l \in AwTeamLists},
     ownerCode \in {""} \cup UNION {SeqToSet(l) : l \in AwOwnerLists},
     cached \in BOOLEAN, currentOwnerEraOnly \in RqBooleans :
    RqStep("awardsRun",
           IF scope = "team" /\ teamId = "" THEN {}
           ELSE IF scope = "owner" /\ ownerCode = ""
           THEN IF cached THEN {}
                ELSE {GetAwards([scope |-> JStr("league"),
                                 mode |-> JStr("summary"), year |-> JStr(year),
                                 currentOwnerEraOnly |-> JBool(TRUE)])}
           ELSE {GetAwards([scope |-> JStr(scope), mode |-> JStr(mode),
                            year |-> JStr(year),
                            teamId |-> IF scope = "team"
                                       THEN JNumber(JStr(teamId)) ELSE JNull,
                            ownerCode |-> IF scope = "owner"
                                          THEN JStr(ownerCode) ELSE JNull,
                            currentOwnerEraOnly |-> currentOwnerEraOnly])})

RqNext ==
  \/ RqLoadMeta
  \/ RqLoadData
  \/ RqStandingsEffect
  \/ RqHistoryEffect
  \/ RqAwardsEffect
  \/ RqHandleRefresh
  \/ RqOpponentRun
  \/ RqAwardsRun

\* C23: every request is a GET, and its refresh parameter, if it has one,
\* is 0; pressing Refresh is no exception.
C23_NoRefreshRequested ==
  \A u \in rq_sent :
    /\ u.method = "GET"
    /\ "refresh" \in DOMAIN u.query => u.query["refresh"] = "0"

\* C23 witness: Refresh was pressed on the Overview tab and the standings of
\* 2025 were requested with refresh = 0 next to week power and season power.
C23_Witness ==
  /\ rq_site = "handleRefresh"
  /\ Cardinality(rq_sent) = 3
  /\ \E u \in rq_sent :
       /\ u.path = "/api/league"
       /\ u.query = [year |-> "2025", refresh |-> "0"]


----------------------------------------------------------------------------
(***************************************************************************)
(* Specifications: one per component; the other components stay as they   *)
(* are before use.                                                         *)
(***************************************************************************)

AwIdle == AwInit /\ aw_teams = <<>>
OmIdle == OmInit /\ om_categories = <<>>
OfIdle == OfInit /\ of_availableYears = <<>> /\ of_year = 0 /\ of_selectedTeamId = 0
PlIdle == PlInit /\ pl_envSeason = NoSeason("unset") /\ pl_maxYear = 2025 /\ ~pl_venv

\* The initial states of the specification of one component.
InitOf(component) ==
  /\ IF component = "AwardsTab" THEN AwInit ELSE AwIdle
  /\ IF component = "OpponentAnalysisTab" THEN OmInit ELSE OmIdle
  /\ DbInit
  /\ LaInit
  /\ IF component = "pull_latest" THEN PlInit ELSE PlIdle
  /\ ChInit
  /\ IF component = "OpponentFetch" THEN OfInit ELSE OfIdle
  /\ ApInit
  /\ P0Init
  /\ RqInit

SpecAwards == InitOf("AwardsTab") /\ [][AwNext]_vars
SpecRecord == InitOf("OpponentAnalysisTab") /\ [][OmRecordNext]_vars
SpecMatrix == InitOf("OpponentAnalysisTab") /\ [][OmMatrixNext]_vars
SpecDash == InitOf("DashboardTab") /\ [][DbNext]_vars
SpecHistory == InitOf("App") /\ [][LaNext]_vars
SpecPull == InitOf("pull_latest") /\ [][PlNext]_vars
SpecCache == InitOf("AggregateCache") /\ [][ChNext]_vars
SpecOppFetch == InitOf("OpponentFetch") /\ [][OfNext]_vars
SpecApp == InitOf("App") /\ [][ApNext]_vars
SpecAppFailures == InitOf("App") /\ [][ApFailNext]_vars
SpecAppWeek ==
  /\ InitOf("App")
  /\ [][ApWeekNext]_vars
  /\ WF_vars(ApMount)
  /\ WF_vars(ApMetaResolve)
  /\ WF_vars(ApDataResolve)
SpecFetchMeta == InitOf("App") /\ [][ApMetaNext]_vars
SpecYearChange == InitOf("App") /\ [][P0Next]_vars
SpecRequests == InitOf("Requests") /\ [][RqNext]_vars

====
